---- MODULE Spec2Model ----
(***************************************************************************)
(* Model of the native receive and frame-sync bindings of grandi           *)
(* (lib/grandi_receive.cc, lib/grandi_framesync.cc): the lifetime of the   *)
(* receiver and frame-sync handles (explicit destroy, finalizer on         *)
(* collection) and the capture work items (video, audio, metadata, data)   *)
(* with their bounded-wait capture loop.                                   *)
(*                                                                         *)
(* Time is the steady clock of one capture call, in milliseconds since the *)
(* loop was entered (the only clock the code reads).                       *)
(***************************************************************************)
EXTENDS Integers, Sequences, FiniteSets, TLC

\* ------------------------------------------------------------------------
\* Bounds of the model
\* ------------------------------------------------------------------------
Receivers == {"r1", "r2"}
FrameSyncs == {"f1"}
Calls == {"c1"}
NoObject == "none"
Absent == -1

\* largest timeout (ms) a caller passes
MaxWait == 2
\* longest time (ms) a native capture may overrun its wait slice
SliceOverrun == 1
\* native captures of one call that are counted; the count stays at this value
\* for every further capture
MaxCaptures == 3
\* explicit destroy() calls the host makes on one handle
MaxDestroyCalls == 2

\* largest multiple of 2^31 in a native tick value
MaxTickHigh == 5
\* most samples per channel and most channels of a native audio frame
MaxSamples == 2
MaxChannels == 2
\* most floats of padding between the channels of a native audio frame
MaxStridePadding == 1
\* changes of the tally state a sender takes in between two polls
MaxTallyEdges == 2

\* ------------------------------------------------------------------------
\* Program constants
\* ------------------------------------------------------------------------
\* native ticks (100 ns) in a second, nanoseconds in a tick
TicksPerSecond == 10000000
NanosPerTick == 100
\* largest int32_t
Int32Max == 2147483647
\* sizeof(float)
BytesPerFloat == 4
\* NDIlib_recv_color_format_fastest, NDIlib_recv_color_format_best
Fastest == 100
Best == 101

\* wait of a dataCarrier when the caller passes no timeout
DefaultWait == 0

Capturable == {"video", "audio", "metadata"}
\* the values NDIlib_recv_capture_v3 hands back: the kinds the code names,
\* NDIlib_frame_type_max, and "unknown" for any value that is none of the
\* enumerators
FrameTypes ==
    Capturable \cup {"none", "error", "status_change", "source_change",
                     "max", "unknown"}
CallKinds == Capturable \cup {"data"}

VARIABLES recv, fs, call, frame, sender, addon

vars == <<recv, fs, call, frame, sender, addon>>

\* ------------------------------------------------------------------------
\* Pure helpers
\* ------------------------------------------------------------------------
\* mutant: the time gone by is not taken off the budget
remainingWaitMs_full(initialWait, elapsed) == initialWait

\* mutant: the time gone by is taken off without the test elapsed >=
\* initialWait
remainingWaitMs_unguarded(initialWait, elapsed) ==
    IF initialWait = 0 THEN 0 ELSE initialWait - elapsed

\* remainingWaitMs(initialWait, start), with the clock read as `elapsed`
\* milliseconds since start
remainingWaitMs(initialWait, elapsed) ==
    IF initialWait = 0 THEN 0
    ELSE IF elapsed >= initialWait THEN 0
    ELSE initialWait - elapsed

\* Values of the host language as the argument handling tells them apart:
\* by napi_typeof, and for numbers by their value
JsUndefined == [type |-> "undefined", n |-> 0]
JsNumber(n) == [type |-> "number", n |-> n]
JsString == [type |-> "string", n |-> 0]
JsBoolean(b) == [type |-> "boolean", n |-> IF b THEN 1 ELSE 0]

\* an entry of a call's log: the step of the call that acted and what it did
Ev(step, op) == [by |-> step, op |-> op]

\* a tally state: NDIlib_tally_t
NoTally == [on_program |-> FALSE, on_preview |-> FALSE]

\* ------------------------------------------------------------------------
\* Initial state
\* ------------------------------------------------------------------------
InitRecv ==
    [pc |-> "absent", embedded |-> "undefined", held |-> FALSE,
     finalized |-> FALSE, destroys |-> 0, rets |-> <<>>,
     error |-> "none", malformed |-> FALSE,
     nativeBy |-> {}, settledBy |-> "none",
     tally |-> NoTally, tallyRet |-> "none",
     colorFormat |-> Absent, askedFields |-> "carrierDefault",
     allowVideoFields |-> "carrierDefault",
     nativeFields |-> "none", reportedFields |-> "none"]

\* A capture work item (dataCarrier) and the promise made for it.
\*   arg          : the timeout the caller passed (Absent when none)
\*   wait, waitMs : c->wait and the local waitMs of captureUntilFrame
\*   elapsed      : steady_clock::now() - start at the last clock reading
\*   captures     : native captures made so far
\*   frameType, slice, took, empty, frees : the frame type the last native
\*                  capture returned, the wait it was given, how long it took,
\*                  whether a video payload is null or empty, and how often
\*                  that frame was handed back to the native layer
\*   dangling     : a native call was made on a destroyed receiver handle, or
\*                  through a released frame-sync wrapper
\*   staleWrapper : a frame-sync pull or release read c->wrapper->fs of a
\*                  wrapper that had been deleted
\*   fs, noVideo  : for frame-sync calls, the frame-sync object and c->noVideo
\*   malformed    : the arguments of the call were not of the documented form
\*   args         : the two arguments the caller passed
\*   audioFormat, referenceLevel : c->audioFormat and c->referenceLevel, with
\*                  "carrierDefault" and JsUndefined for the values the
\*                  carrier is constructed with
\*   emitted      : the audioFormat and referenceLevel properties of an audio
\*                  result ("-" and JsUndefined when not set)
\*   nativeBy     : the steps of the call (entry, execute, complete) in which
\*                  a native capture, pull or audio conversion was made
\*   log          : what the entry and the completion step did to the payload,
\*                  the native frame and the promise, in program order
InitCall ==
    [pc |-> "idle", kind |-> "-", recv |-> NoObject, fs |-> NoObject,
     malformed |-> FALSE, noVideo |-> FALSE, arg |-> Absent,
     wait |-> 0, waitMs |-> 0,
     elapsed |-> 0, captures |-> 0, frameType |-> "-", slice |-> 0,
     took |-> 0, empty |-> FALSE, frees |-> 0,
     status |-> "ok", promise |-> "none", value |-> "-", dangling |-> FALSE,
     nativeBy |-> {}, log |-> <<>>,
     args |-> <<JsUndefined, JsUndefined>>,
     audioFormat |-> "carrierDefault", referenceLevel |-> JsUndefined,
     emitted |-> [audioFormat |-> "-", referenceLevel |-> JsUndefined],
     staleWrapper |-> FALSE]

InitFs ==
    [pc |-> "absent", recv |-> NoObject, embedded |-> "undefined", held |-> FALSE,
     finalized |-> FALSE, wrapper |-> "none", fsptr |-> "null", refptr |-> "null",
     ref |-> "none", fsDestroys |-> 0, refDeletes |-> 0, wrapperDeletes |-> 0,
     rets |-> <<>>, dangling |-> FALSE, error |-> "none", malformed |-> FALSE,
     nativeBy |-> {}, settledBy |-> "none", depth |-> "none", depthStale |-> FALSE]

\* The sender a receiver is connected to, as far as its tally goes.
\*   on_program, on_preview : the tally state the sender holds
\*   changed                : the state has changed since the last poll
\*   edges                  : state transitions since the last poll
\*   polled                 : tally() has been called
\*   last                   : what the last tally() call returned, and the
\*                            transitions there had been since the poll before
InitSender ==
    [on_program |-> FALSE, on_preview |-> FALSE,
     changed |-> FALSE, edges |-> 0, polled |-> FALSE,
     last |-> [changed |-> FALSE, on_program |-> FALSE, on_preview |-> FALSE,
               edges |-> 0]]

\* The module src/index.ts and the host it is imported on.
\*   platform, arch : process.platform and process.arch
\*   loadable       : node-gyp-build finds a binding for the host
\*   pc             : "unloaded", "loaded" (the import succeeded) or "failed"
\*                    (the evaluation of the module threw)
\*   uses           : the object behind the exports: "native", "noop", "none"
\*   loaderCalls    : calls of nodeGypBuild
\*   last           : the last call of an export: its name, the argument the
\*                    caller gave, the argument the native addon received and
\*                    what the call returned
NoCall == [fn |-> "-", arg |-> "-", received |-> "-", outcome |-> "-"]

NativeAddon ==
    [platform |-> "linux", arch |-> "x64", loadable |-> TRUE, pc |-> "loaded",
     uses |-> "native", loaderCalls |-> 1, last |-> NoCall]

\* A native frame being turned into a result object.
\*   site                : the completion function that builds the result
\*   timestamp, timecode : the native tick values (see Ticks)
\*   audioFormat, samples, channels, stride, payload : the audio layout asked
\*                  for and the no_samples, no_channels,
\*                  channel_stride_in_bytes and p_data # nullptr of the frame
\*   out                 : the fields of the result object
NoOut ==
    [timestamp |-> <<0, 0>>, timecode |-> <<0, 0>>,
     channelStrideInBytes |-> 0, channels |-> 0, dataLength |-> 0]

NoFrame ==
    [pc |-> "none", site |-> "-", timestamp |-> [hi |-> 0, lo |-> 0],
     timecode |-> [hi |-> 0, lo |-> 0], audioFormat |-> "-", samples |-> 0,
     channels |-> 0, stride |-> 0, payload |-> FALSE, out |-> NoOut]

Init ==
    /\ recv = [r \in Receivers |-> InitRecv]
    /\ fs = [f \in FrameSyncs |-> InitFs]
    /\ call = [c \in Calls |-> InitCall]
    /\ frame = NoFrame
    /\ sender = InitSender
    /\ addon = NativeAddon

\* the native receiver handle of r has been passed to NDIlib_recv_destroy
NativeFreed(r) == recv[r].destroys > 0

\* ------------------------------------------------------------------------
\* Receiver creation
\* ------------------------------------------------------------------------
\* The forms of the argument list of receive() the code tells apart: the
\* documented form, and one form for each thing that can be wrong with it
ReceiveArgs ==
    {"valid", "noArgument", "configNotObject", "sourceNotObject",
     "sourceNameNotString", "urlAddressNotString", "colorFormatNotNumber",
     "colorFormatInvalid", "bandwidthNotNumber", "bandwidthInvalid",
     "allowVideoFieldsNotBoolean", "nameNotString"}

\* c->status after the argument checks of receive(), taken in their order
receiveArgsStatus(a) ==
    CASE a = "noArgument" -> "InvalidArgs"
      [] a = "configNotObject" -> "InvalidArgs"
      [] a = "sourceNotObject" -> "InvalidArgs"
      [] a = "sourceNameNotString" -> "InvalidArgs"
      [] a = "urlAddressNotString" -> "InvalidArgs"
      [] a = "colorFormatNotNumber" -> "InvalidArgs"
      [] a = "colorFormatInvalid" -> "InvalidArgs"
      [] a = "bandwidthNotNumber" -> "InvalidArgs"
      [] a = "bandwidthInvalid" -> "InvalidArgs"
      [] a = "allowVideoFieldsNotBoolean" -> "InvalidArgs"
      [] a = "nameNotString" -> "InvalidArgs"
      [] OTHER -> "ok"

\* the colour formats validColorFormat lets through on every platform
ColorFormats == {0, 1, 2, 3, Fastest, Best}

\* the colorFormat and allowVideoFields properties of a well-formed config
ColorFormatArgs == {JsUndefined} \cup {JsNumber(k) : k \in ColorFormats}
AllowVideoFieldsArgs == {JsUndefined, JsBoolean(TRUE), JsBoolean(FALSE)}

\* c->colorFormat after the colorFormat property has been read: Absent
\* stands for the initial value of the carrier's field
colorFormatAfter(colorFormat) ==
    IF colorFormat.type = "undefined" THEN Absent ELSE colorFormat.n

\* c->allowVideoFields after the allowVideoFields property has been read:
\* "carrierDefault" stands for the initial value of the carrier's field
allowVideoFieldsRead(allowVideoFields) ==
    CASE allowVideoFields.type = "undefined" -> "carrierDefault"
      [] allowVideoFields.n = 1 -> "true"
      [] OTHER -> "false"

\* mutant: the caller's flag is kept for every colour format
allowVideoFieldsAfter_asked(colorFormat, asked) == {asked}

\* the values c->allowVideoFields can have when the carrier is queued: true
\* for the colour formats fastest and best, else what was read. When the
\* config has no colorFormat the colour format is the initial value of the
\* carrier, which may or may not be one of the two.
allowVideoFieldsAfter(colorFormat, asked) ==
    CASE colorFormat \in {Fastest, Best} -> {"true"}
      [] colorFormat = Absent /\ asked = "false" -> {"false", "true"}
      [] OTHER -> {asked}

\* receive(): the arguments are checked; a failed check rejects the promise,
\* else the carrier is queued. colorFormat and allowVideoFields are the two
\* properties of a config that passes the checks.
receive(r, colorFormat, allowVideoFields) ==
    /\ recv[r].pc = "absent"
    /\ \E a \in ReceiveArgs :
       \E fields \in allowVideoFieldsAfter(colorFormatAfter(colorFormat),
                                           allowVideoFieldsRead(allowVideoFields)) :
         recv' = [recv EXCEPT ![r] =
                    IF receiveArgsStatus(a) # "ok"
                    THEN [@ EXCEPT !.pc = "rejected", !.error = receiveArgsStatus(a),
                                   !.malformed = (a # "valid"),
                                   !.settledBy = "entry"]
                    ELSE [@ EXCEPT !.pc = "queued", !.malformed = (a # "valid"),
                                   !.colorFormat = colorFormatAfter(colorFormat),
                                   !.askedFields = allowVideoFieldsRead(allowVideoFields),
                                   !.allowVideoFields = fields]]
    /\ UNCHANGED <<fs, call, frame, sender, addon>>

\* receiveExecute: NDIlib_recv_create_v3 returns a handle or null; null
\* sets c->status to GRANDI_RECEIVE_CREATE_FAIL
receiveExecute(r) ==
    /\ recv[r].pc = "queued"
    /\ \E created \in BOOLEAN :
         recv' = [recv EXCEPT ![r] =
                    IF created
                    THEN [@ EXCEPT !.pc = "created", !.nativeBy = @ \cup {"execute"},
                                   !.nativeFields = recv[r].allowVideoFields]
                    ELSE [@ EXCEPT !.pc = "createFailed", !.error = "CreateFail",
                                   !.nativeBy = @ \cup {"execute"},
                                   !.nativeFields = recv[r].allowVideoFields]]
    /\ UNCHANGED <<fs, call, frame, sender, addon>>

\* mutant: the handle object is built whatever the status
receiveComplete_noStatusCheck(r) ==
    /\ recv[r].pc \in {"created", "createFailed"}
    /\ recv' = [recv EXCEPT ![r] =
                  [@ EXCEPT !.pc = "open", !.embedded = "external", !.held = TRUE,
                            !.reportedFields = recv[r].allowVideoFields,
                            !.settledBy = "complete"]]
    /\ UNCHANGED <<fs, call, frame, sender, addon>>

\* receiveComplete: reject on a failed status, else build the handle object
\* with the external in "embedded" and resolve
receiveComplete(r) ==
    /\ recv[r].pc \in {"created", "createFailed"}
    /\ recv' = [recv EXCEPT ![r] =
                  IF recv[r].error # "none"
                  THEN [@ EXCEPT !.pc = "rejected", !.settledBy = "complete"]
                  ELSE [@ EXCEPT !.pc = "open", !.embedded = "external", !.held = TRUE,
                                 !.reportedFields = recv[r].allowVideoFields,
                                 !.settledBy = "complete"]]
    /\ UNCHANGED <<fs, call, frame, sender, addon>>

\* ------------------------------------------------------------------------
\* Receiver destruction
\* ------------------------------------------------------------------------
\* mutant: destroy() leaves the external in "embedded"
destroyReceive_keepsEmbedded(r) ==
    /\ recv[r].pc = "open"
    /\ recv[r].held
    /\ Len(recv[r].rets) < MaxDestroyCalls
    /\ recv' = [recv EXCEPT ![r] =
                  IF recv[r].embedded = "external"
                  THEN [@ EXCEPT !.destroys = @ + 1, !.rets = Append(@, TRUE)]
                  ELSE [@ EXCEPT !.rets = Append(@, FALSE)]]
    /\ UNCHANGED <<fs, call, frame, sender, addon>>

\* destroyReceive: when "embedded" is an external, destroy the native handle,
\* overwrite "embedded" with the number 0 and return true; else return false
destroyReceive(r) ==
    /\ recv[r].pc = "open"
    /\ recv[r].held
    /\ Len(recv[r].rets) < MaxDestroyCalls
    /\ recv' = [recv EXCEPT ![r] =
                  IF recv[r].embedded = "external"
                  THEN [@ EXCEPT !.destroys = @ + 1, !.embedded = "number",
                                 !.rets = Append(@, TRUE)]
                  ELSE [@ EXCEPT !.rets = Append(@, FALSE)]]
    /\ UNCHANGED <<fs, call, frame, sender, addon>>

\* the host program lets go of its last reference to the receiver object
dropReceiver(r) ==
    /\ recv[r].pc = "open"
    /\ recv[r].held
    /\ recv' = [recv EXCEPT ![r].held = FALSE]
    /\ UNCHANGED <<fs, call, frame, sender, addon>>

\* a frame-sync carrier or wrapper holds a strong napi reference to r
ReceiverReferenced(r) ==
    \E f \in FrameSyncs : fs[f].recv = r /\ fs[f].ref = "live"

\* the external made by receiveComplete can be collected: the property
\* "embedded" no longer holds it, or the object itself is unreachable
ReceiverExternalCollectable(r) ==
    /\ recv[r].pc = "open"
    /\ ~recv[r].finalized
    /\ \/ recv[r].embedded # "external"
       \/ ~recv[r].held /\ ~ReceiverReferenced(r)

\* Objects the finalize hint of a receiver external may denote. The hint is
\* the napi_value `result` of receiveComplete, a handle that is only valid
\* inside that callback: when the finalizer runs the handle slot may still
\* denote the receiver object, may denote another receiver object that was
\* put in the slot since, or may denote nothing usable.
ReceiverCollected(o) ==
    recv[o].finalized /\ ~recv[o].held /\ ~ReceiverReferenced(o)

ReceiveHintTargets(r) ==
    {r} \cup {o \in Receivers : recv[o].pc = "open" /\ ~ReceiverCollected(o)}
        \cup {NoObject}

\* finalizeReceive(env, data, hint) with hint # nullptr: read "embedded" of
\* the hinted object and destroy the native handle it holds when it is an
\* external; "embedded" is left as it is
finalizeReceive(r) ==
    /\ ReceiverExternalCollectable(r)
    /\ \E o \in ReceiveHintTargets(r) :
         recv' = [q \in Receivers |->
                    LET a == IF q = r THEN [recv[q] EXCEPT !.finalized = TRUE]
                             ELSE recv[q]
                    IN IF q = o /\ recv[q].embedded = "external"
                       THEN [a EXCEPT !.destroys = @ + 1]
                       ELSE a]
    /\ UNCHANGED <<fs, call, frame, sender, addon>>

\* ------------------------------------------------------------------------
\* Frame-sync creation
\* ------------------------------------------------------------------------
\* the forms of the argument list of framesync(): a receiver object r, no
\* argument, an argument that is not an object, an object without "embedded"
FramesyncArgs == {"receiver", "noArgument", "notObject", "notReceiver"}

\* framesync(receiver): reject unless "embedded" of the receiver object is an
\* external; copy the native receiver handle into the carrier, take a strong
\* reference (count 1) to the receiver object and queue the work
framesync(f, r) ==
    /\ fs[f].pc = "absent"
    /\ recv[r].pc = "open"
    /\ recv[r].held
    /\ \E a \in FramesyncArgs :
         fs' = [fs EXCEPT ![f] =
                  IF a # "receiver" \/ recv[r].embedded # "external"
                  THEN [@ EXCEPT !.pc = "rejected", !.error = "InvalidArgs",
                                 !.malformed = TRUE, !.settledBy = "entry"]
                  ELSE [@ EXCEPT !.pc = "queued", !.recv = r, !.ref = "live"]]
    /\ UNCHANGED <<recv, call, frame, sender, addon>>

\* framesyncExecute: NDIlib_framesync_create(c->recv) returns a handle or
\* null; null sets c->status to GRANDI_RECEIVE_CREATE_FAIL
framesyncExecute(f) ==
    /\ fs[f].pc = "queued"
    /\ \E created \in BOOLEAN :
         fs' = [fs EXCEPT ![f].pc = IF created THEN "created" ELSE "createFailed",
                          ![f].error = IF created THEN @ ELSE "CreateFail",
                          ![f].nativeBy = @ \cup {"execute"},
                          ![f].dangling = NativeFreed(fs[f].recv)]
    /\ UNCHANGED <<recv, call, frame, sender, addon>>

\* tidyCarrier: a reference left in c->passthru is deleted with the carrier
tidyCarrierRef(s) ==
    IF s.ref = "live" /\ s.refptr = "null"
    THEN [s EXCEPT !.ref = "deleted", !.refDeletes = @ + 1]
    ELSE s

\* framesyncComplete: reject on a failed status; else move the handle and the
\* reference into a new wrapper, store it as the external "embedded", resolve
framesyncComplete(f) ==
    /\ fs[f].pc \in {"created", "createFailed"}
    /\ fs' = [fs EXCEPT ![f] =
                IF fs[f].error # "none"
                THEN tidyCarrierRef([@ EXCEPT !.pc = "rejected",
                                              !.settledBy = "complete"])
                ELSE tidyCarrierRef([@ EXCEPT !.pc = "open", !.wrapper = "alive",
                                       !.fsptr = "set", !.refptr = "set",
                                       !.embedded = "external", !.held = TRUE,
                                       !.settledBy = "complete"])]
    /\ UNCHANGED <<recv, call, frame, sender, addon>>

\* ------------------------------------------------------------------------
\* Frame-sync destruction
\* ------------------------------------------------------------------------
\* The body shared by destroyFrameSync and finalizeFrameSync, applied to the
\* wrapper of frame-sync record s: destroy the native frame-sync when
\* wrapper->fs is set, delete the reference when wrapper->receiverRef is set,
\* delete the wrapper. fsSet and refSet are what the two fields read as: the
\* stored values for a live wrapper, anything for a deleted one.
releaseWrapper(s, fsSet, refSet) ==
    [s EXCEPT !.fsDestroys = IF fsSet THEN @ + 1 ELSE @,
              !.fsptr = "null",
              !.refDeletes = IF refSet THEN @ + 1 ELSE @,
              !.ref = IF refSet THEN "deleted" ELSE @,
              !.refptr = "null",
              !.wrapperDeletes = @ + 1,
              !.wrapper = "deleted"]

\* values wrapper->fs # nullptr and wrapper->receiverRef # nullptr can read as
WrapperReads(s) ==
    IF s.wrapper = "alive"
    THEN {<<s.fsptr = "set", s.refptr = "set">>}
    ELSE BOOLEAN \X BOOLEAN

\* destroyFrameSync: when "embedded" is an external, release the wrapper,
\* overwrite "embedded" with the number 0 and return true; else return false
destroyFrameSync(f) ==
    /\ fs[f].pc = "open"
    /\ fs[f].held
    /\ Len(fs[f].rets) < MaxDestroyCalls
    /\ \E rd \in WrapperReads(fs[f]) :
         fs' = [fs EXCEPT ![f] =
                  IF fs[f].embedded = "external"
                  THEN [releaseWrapper(@, rd[1], rd[2]) EXCEPT
                           !.embedded = "number", !.rets = Append(@, TRUE)]
                  ELSE [@ EXCEPT !.rets = Append(@, FALSE)]]
    /\ UNCHANGED <<recv, call, frame, sender, addon>>

\* audioQueueDepth: throw when "embedded" is not an external; else read
\* wrapper->fs, ask NDIlib_framesync_audio_queue_depth on the main thread
\* and return the number
audioQueueDepth(f) ==
    /\ fs[f].pc = "open"
    /\ fs[f].held
    /\ fs' = [fs EXCEPT ![f] =
                IF fs[f].embedded # "external"
                THEN [@ EXCEPT !.depth = "throws"]
                ELSE [@ EXCEPT !.depth = "number",
                               !.depthStale = @ \/ fs[f].wrapper # "alive"
                                                \/ fs[f].fsptr # "set"]]
    /\ UNCHANGED <<recv, call, frame, sender, addon>>

\* the host program lets go of its last reference to the frame-sync object
dropFrameSync(f) ==
    /\ fs[f].pc = "open"
    /\ fs[f].held
    /\ fs' = [fs EXCEPT ![f].held = FALSE]
    /\ UNCHANGED <<recv, call, frame, sender, addon>>

FrameSyncExternalCollectable(f) ==
    /\ fs[f].pc = "open"
    /\ ~fs[f].finalized
    /\ (fs[f].embedded # "external" \/ ~fs[f].held)

FrameSyncCollected(o) == fs[o].finalized /\ ~fs[o].held

\* objects the napi_value hint of a frame-sync external may denote when the
\* finalizer runs (see ReceiveHintTargets)
FrameSyncHintTargets(f) ==
    {f} \cup {o \in FrameSyncs : fs[o].pc = "open" /\ ~FrameSyncCollected(o)}
        \cup {NoObject}

\* finalizeFrameSync(env, data, hint): read "embedded" of the hinted object
\* and release the wrapper it holds when it is an external; "embedded" is
\* left as it is
finalizeFrameSync(f) ==
    /\ FrameSyncExternalCollectable(f)
    /\ \E o \in FrameSyncHintTargets(f) :
         IF o # NoObject /\ fs[o].embedded = "external"
         THEN \E rd \in WrapperReads(fs[o]) :
                fs' = [q \in FrameSyncs |->
                         LET a == IF q = f THEN [fs[q] EXCEPT !.finalized = TRUE]
                                  ELSE fs[q]
                         IN IF q = o THEN releaseWrapper(a, rd[1], rd[2]) ELSE a]
         ELSE fs' = [fs EXCEPT ![f].finalized = TRUE]
    /\ UNCHANGED <<recv, call, frame, sender, addon>>

\* ------------------------------------------------------------------------
\* Capture calls: entry points (main thread)
\* ------------------------------------------------------------------------
Timeouts == (0 .. MaxWait) \cup {Absent}

\* c->wait after the argument handling: a numeric timeout is read with
\* napi_get_value_uint32 (the timeouts of the model lie in the uint32 range,
\* where that call returns the number itself), anything else leaves the
\* carrier default
WaitOf(t) == IF t = Absent THEN DefaultWait ELSE t

\* The forms of the arguments of receiver.audio and receiver.data the code
\* tells apart: the documented forms ("valid": an options object, a timeout,
\* both or none), an array as first argument, an audioFormat that is not a
\* number or not a known format, a referenceLevel that is not a number, a
\* first argument that is neither an object nor a number, and a timeout that
\* is not a number
AudioArgs ==
    {"valid", "array", "audioFormatNotNumber", "audioFormatInvalid",
     "referenceLevelNotNumber", "notObjectOrNumber", "timeoutNotNumber"}

\* First arguments: nothing, a number, a string, an array, or an options
\* object with the properties audioFormat and referenceLevel
JsPlain(v) ==
    [type |-> v.type, n |-> v.n, isArray |-> FALSE,
     audioFormat |-> JsUndefined, referenceLevel |-> JsUndefined]

JsArray ==
    [type |-> "object", n |-> 0, isArray |-> TRUE,
     audioFormat |-> JsUndefined, referenceLevel |-> JsUndefined]

JsOptions(af, rl) ==
    [type |-> "object", n |-> 0, isArray |-> FALSE,
     audioFormat |-> af, referenceLevel |-> rl]

\* enum AudioFormat: Float32Separate = 0, Float32Interleaved = 1,
\* Int16Interleaved = 2
validAudioFormat(k) == k \in 0 .. 2

audioFormatOf(k) ==
    CASE k = 0 -> "float_32_separate"
      [] k = 1 -> "float_32_interleaved"
      [] k = 2 -> "int_16_interleaved"

\* the audioFormat and referenceLevel properties callers pass: none, a
\* string, a number (for audioFormat two known formats and one unknown)
AudioFormatProps == {JsUndefined, JsString} \cup {JsNumber(k) : k \in 1 .. 3}
ReferenceLevelProps == {JsUndefined, JsString, JsNumber(0)}

TimeoutArgs == {IF t = Absent THEN JsUndefined ELSE JsNumber(t) : t \in Timeouts}

FirstArgs ==
    {JsPlain(v) : v \in TimeoutArgs \cup {JsString}} \cup {JsArray}
    \cup {JsOptions(af, rl) : af \in AudioFormatProps, rl \in ReferenceLevelProps}

SecondArgs == TimeoutArgs \cup {JsString}

\* the form of the arguments (first, second), in the order in which
\* dataAndAudioReceive checks them
audioArgsClass(first, second) ==
    CASE first.type = "object" /\ first.isArray -> "array"
      [] first.type = "object" /\ ~first.isArray
           /\ first.audioFormat.type = "number"
           /\ ~validAudioFormat(first.audioFormat.n) -> "audioFormatInvalid"
      [] first.type = "object" /\ ~first.isArray
           /\ first.audioFormat.type \notin {"number", "undefined"} -> "audioFormatNotNumber"
      [] first.type = "object" /\ ~first.isArray
           /\ first.audioFormat.type \in {"number", "undefined"}
           /\ (first.audioFormat.type = "number" => validAudioFormat(first.audioFormat.n))
           /\ first.referenceLevel.type \notin {"number", "undefined"} -> "referenceLevelNotNumber"
      [] first.type \notin {"object", "number", "undefined"} -> "notObjectOrNumber"
      [] OTHER -> IF second.type \notin {"number", "undefined"}
                  THEN "timeoutNotNumber" ELSE "valid"

\* mutant: the format of an earlier call is kept for calls without one
audioFormatAfter_kept(first) ==
    IF first.type = "object" /\ first.audioFormat.type = "number"
    THEN audioFormatOf(first.audioFormat.n)
    ELSE IF \E d \in DOMAIN call : call[d].audioFormat # "carrierDefault"
    THEN call[CHOOSE d \in DOMAIN call : call[d].audioFormat # "carrierDefault"].audioFormat
    ELSE "carrierDefault"

\* mutant: the timeout is always read from the second argument
waitValueOf_second(first, second) == second

\* waitValue = (type == napi_number) ? args[0] : args[1]
waitValueOf(first, second) ==
    IF first.type = "number" THEN [type |-> first.type, n |-> first.n] ELSE second

\* the timeout read from waitValue: its number, or Absent when it is not a
\* number
timeoutOf(v) == IF v.type = "number" THEN v.n ELSE Absent

\* c->audioFormat and c->referenceLevel after the handling of a first
\* argument that passed the checks
audioFormatAfter(first) ==
    IF first.type = "object" /\ first.audioFormat.type = "number"
    THEN audioFormatOf(first.audioFormat.n) ELSE "carrierDefault"

referenceLevelAfter(first) ==
    IF first.type = "object" /\ first.referenceLevel.type = "number"
    THEN first.referenceLevel ELSE JsUndefined

\* c->status after the argument handling of dataAndAudioReceive
audioArgsStatus(a) ==
    CASE a = "array" -> "InvalidArgs"
      [] a = "audioFormatNotNumber" -> "InvalidArgs"
      [] a = "audioFormatInvalid" -> "InvalidArgs"
      [] a = "referenceLevelNotNumber" -> "InvalidArgs"
      [] OTHER -> "ok"

\* Common entry of videoReceive, metadataReceive and dataAndAudioReceive:
\* make the promise, read the native handle out of "embedded" (rejecting when
\* it is not an external), read the timeout, queue the work item
startCall(c, kind, r, first, second) ==
    /\ call[c].pc = "idle"
    /\ recv[r].pc = "open"
    /\ recv[r].held
    /\ LET a == audioArgsClass(first, second)
           t == timeoutOf(waitValueOf(first, second))
       IN call' = [call EXCEPT ![c] =
                  IF recv[r].embedded # "external"
                  THEN [@ EXCEPT !.pc = "settled", !.kind = kind,
                                 !.args = <<first, second>>,
                                 !.malformed = (a # "valid"),
                                 !.status = "InvalidArg",
                                 !.promise = "rejected", !.value = "InvalidArg",
                                 !.log = <<Ev("entry", "reject")>>]
                  ELSE IF audioArgsStatus(a) # "ok"
                  THEN [@ EXCEPT !.pc = "settled", !.kind = kind,
                                 !.args = <<first, second>>,
                                 !.malformed = (a # "valid"),
                                 !.status = audioArgsStatus(a),
                                 !.promise = "rejected",
                                 !.value = audioArgsStatus(a),
                                 !.log = <<Ev("entry", "reject")>>]
                  ELSE [@ EXCEPT !.pc = "queued", !.kind = kind, !.recv = r,
                                 !.args = <<first, second>>,
                                 !.malformed = (a # "valid"),
                                 !.audioFormat = audioFormatAfter(first),
                                 !.referenceLevel = referenceLevelAfter(first),
                                 !.arg = t, !.wait = WaitOf(t),
                                 !.promise = "pending"]]
    /\ UNCHANGED <<recv, fs, frame, sender, addon>>

\* videoReceive and metadataReceive read a timeout and nothing else
videoReceive(c) ==
    \E r \in Receivers, first \in TimeoutArgs :
        startCall(c, "video", r, JsPlain(first), JsUndefined)

metadataReceive(c) ==
    \E r \in Receivers, first \in TimeoutArgs :
        startCall(c, "metadata", r, JsPlain(first), JsUndefined)

\* audioReceive and dataReceive go through dataAndAudioReceive; a timeout
\* that is not a number leaves c->wait at its default
audioReceive(c) ==
    \E r \in Receivers, first \in FirstArgs, second \in SecondArgs :
        /\ first.type = "undefined" => second.type = "undefined"
        /\ startCall(c, "audio", r, first, second)

dataReceive(c) ==
    \E r \in Receivers, first \in FirstArgs, second \in SecondArgs :
        /\ first.type = "undefined" => second.type = "undefined"
        /\ startCall(c, "data", r, first, second)

\* ------------------------------------------------------------------------
\* The native capture (NDIlib_recv_capture_v3) as the code sees it
\* ------------------------------------------------------------------------
\* mutant: the steady clock stands still
CaptureDurations_instant(ft, w) == {0}

\* How long it may take from the call of a native capture given wait slice
\* w to the next reading of the steady clock, when the capture returns
\* frame type ft: "none" means the whole slice went by without a frame; any
\* other result arrives within the slice. Either way the thread may be held
\* up before the clock is read. With a slice of 0 the loop runs without a
\* budget and remainingWaitMs returns before it reads the clock.
CaptureDurations(ft, w) ==
    CASE ft = "none" -> w .. (w + SliceOverrun)
      [] w = 0 -> {0}
      [] OTHER -> 0 .. (w + SliceOverrun)

\* a video frame may come with a null or zero-sized payload
PayloadEmpty(ft) == IF ft = "video" THEN BOOLEAN ELSE {FALSE}

\* ------------------------------------------------------------------------
\* Capture calls: execute step (worker thread)
\* ------------------------------------------------------------------------
\* mutant: a transport error is passed over like a notification
FrameDecision_retryOnError(ft, desired) ==
    IF ft = desired THEN "match"
    ELSE CASE ft = "none" -> "timeout"
           [] ft \in Capturable -> "free"
           [] OTHER -> "skip"

\* mutant: a status-change notification ends the capture like a no-frame
\* result
FrameDecision_notificationEnds(ft, desired) ==
    IF ft = desired THEN "match"
    ELSE CASE ft \in {"none", "status_change"} -> "timeout"
           [] ft = "error" -> "lost"
           [] ft \in Capturable -> "free"
           [] OTHER -> "skip"

\* mutant: an unwanted frame is skipped without being released
FrameDecision_noFree(ft, desired) ==
    IF ft = desired THEN "match"
    ELSE CASE ft = "none" -> "timeout"
           [] ft = "error" -> "lost"
           [] OTHER -> "skip"

\* The decision captureUntilFrame takes on the frame type of one native
\* capture: "match" (return true), "timeout", "lost" (return false), "free"
\* (release the frame and go on) or "skip" (go on)
FrameDecision(ft, desired) ==
    IF ft = desired THEN "match"
    ELSE CASE ft = "none" -> "timeout"
           [] ft = "error" -> "lost"
           [] ft \in Capturable -> "free"
           [] OTHER -> "skip"

\* mutant: the first native capture polls instead of waiting
InitialSlice_poll(initialWait) == 0

\* uint32_t waitMs = initialWait: the wait slice of the first native capture
InitialSlice(initialWait) == initialWait

\* One iteration of the loop of captureUntilFrame(c, desired, c->wait, ...):
\* the native capture with the current waitMs, the decision on its result,
\* freeCapturedFrame for an unwanted frame, and the new waitMs
captureUntilFrame(c) ==
    /\ call[c].pc \in {"queued", "looping"}
    /\ call[c].kind \in Capturable
    /\ \E ft \in FrameTypes :
       \E e \in PayloadEmpty(ft) :
       \E d \in CaptureDurations(ft, IF call[c].pc = "queued"
                                     THEN InitialSlice(call[c].wait)
                                     ELSE call[c].waitMs) :
         LET s == [call[c] EXCEPT !.waitMs = IF call[c].pc = "queued"
                                             THEN InitialSlice(call[c].wait)
                                             ELSE @]
             now == s.elapsed + d
             dec == FrameDecision(ft, s.kind)
             left == remainingWaitMs(s.wait, now)
             got == [s EXCEPT !.captures = IF @ < MaxCaptures THEN @ + 1 ELSE @,
                              !.frameType = ft,
                              !.slice = s.waitMs, !.took = d, !.empty = e,
                              !.frees = IF dec = "free" THEN 1 ELSE 0,
                              !.elapsed = now,
                              !.nativeBy = @ \cup {"execute"},
                              !.dangling = @ \/ NativeFreed(s.recv)]
         IN call' = [call EXCEPT ![c] =
              CASE dec = "match" -> [got EXCEPT !.pc = "executed"]
                [] dec = "timeout" -> [got EXCEPT !.pc = "executed", !.status = "NotFound"]
                [] dec = "lost" -> [got EXCEPT !.pc = "executed", !.status = "ConnectionLost"]
                [] OTHER ->
                     IF s.wait # 0 /\ left = 0
                     THEN [got EXCEPT !.pc = "executed", !.waitMs = left,
                                      !.status = "NotFound"]
                     ELSE [got EXCEPT !.pc = "looping", !.waitMs = left]]
    /\ UNCHANGED <<recv, fs, frame, sender, addon>>

\* mutant: the frame structures are shared by the work items
dataReceiveExecute_sharedFrame(c) ==
    /\ call[c].pc = "queued"
    /\ call[c].kind = "data"
    /\ \E ft \in FrameTypes :
       \E d \in CaptureDurations(ft, call[c].wait), e \in PayloadEmpty(ft) :
         call' = [x \in DOMAIN call |->
                    IF x = c
                    THEN [call[x] EXCEPT !.pc = "executed", !.captures = @ + 1,
                              !.frameType = ft, !.slice = call[c].wait,
                              !.took = d, !.empty = e, !.elapsed = d,
                              !.nativeBy = @ \cup {"execute"},
                              !.dangling = @ \/ NativeFreed(call[c].recv)]
                    ELSE [call[x] EXCEPT !.frameType = ft, !.empty = e]]
    /\ UNCHANGED <<recv, fs, frame, sender, addon>>

\* dataReceiveExecute: one native capture with c->wait, the result kept in
\* c->frameType for the completion
dataReceiveExecute(c) ==
    /\ call[c].pc = "queued"
    /\ call[c].kind = "data"
    /\ \E ft \in FrameTypes :
       \E d \in CaptureDurations(ft, call[c].wait), e \in PayloadEmpty(ft) :
         call' = [call EXCEPT ![c] =
                    [@ EXCEPT !.pc = "executed", !.captures = @ + 1,
                              !.frameType = ft, !.slice = call[c].wait,
                              !.took = d, !.empty = e, !.elapsed = d,
                              !.nativeBy = @ \cup {"execute"},
                              !.dangling = @ \/ NativeFreed(call[c].recv)]]
    /\ UNCHANGED <<recv, fs, frame, sender, addon>>

\* ------------------------------------------------------------------------
\* Capture calls: completion step (main thread)
\* ------------------------------------------------------------------------
\* REJECT_STATUS with a failed c->status: the promise is rejected with the
\* status as the error and the carrier is tidied
rejectStatus(s) ==
    [s EXCEPT !.pc = "settled", !.promise = "rejected", !.value = s.status,
              !.log = @ \o <<Ev("complete", "reject"), Ev("complete", "tidy")>>]

\* napi_resolve_deferred with a result object of the given type, then
\* tidyCarrier(env, c), which disposes of the carrier
resolveWith(s, type) ==
    [s EXCEPT !.pc = "settled", !.promise = "resolved", !.value = type,
              !.log = @ \o <<Ev("complete", "resolve"), Ev("complete", "tidy")>>]

\* the payload of the native frame is copied into a buffer (or, for
\* metadata, a string) of the host: napi_create_buffer_copy,
\* napi_create_string_utf8
copyPayload(s) ==
    [s EXCEPT !.log = Append(@, Ev("complete", "copy"))]

\* the native frame in the carrier is handed back (NDIlib_recv_free_*)
freeFrame(s) ==
    [s EXCEPT !.frees = @ + 1, !.dangling = @ \/ NativeFreed(s.recv),
              !.log = Append(@, Ev("complete", "free"))]

\* mutant: the buffer is copied without the check for an empty payload
videoComplete_noEmptyCheck(s) ==
    IF s.status # "ok" THEN rejectStatus(s)
    ELSE resolveWith(freeFrame(copyPayload(s)), "video")

\* body of videoReceiveComplete
videoComplete(s) ==
    IF s.status # "ok" THEN rejectStatus(s)
    ELSE IF s.empty THEN rejectStatus([s EXCEPT !.status = "NotVideo"])
    ELSE resolveWith(freeFrame(copyPayload(s)), "video")

\* the audioFormat property of an audio result is c->audioFormat; the
\* referenceLevel property is set for int_16_interleaved only
emitAudioOptions(s) ==
    [s EXCEPT !.emitted =
        [audioFormat |-> s.audioFormat,
         referenceLevel |-> IF s.audioFormat = "int_16_interleaved"
                            THEN s.referenceLevel ELSE JsUndefined]]

\* mutant: the native audio frame is handed back before its samples are
\* copied
audioComplete_freeFirst(s) ==
    IF s.status # "ok" THEN rejectStatus(s)
    ELSE resolveWith(copyPayload(freeFrame(emitAudioOptions(s))), "audio")

\* body of audioReceiveComplete
audioComplete(s) ==
    IF s.status # "ok" THEN rejectStatus(s)
    ELSE resolveWith(freeFrame(copyPayload(emitAudioOptions(s))), "audio")

\* body of metadataReceiveComplete
metadataComplete(s) ==
    IF s.status # "ok" THEN rejectStatus(s)
    ELSE resolveWith(freeFrame(copyPayload(s)), "metadata")

\* the switch of dataReceiveComplete has no default label: for a value of
\* c->frameType that matches no case the function returns with the promise
\* neither resolved nor rejected and the carrier not tidied
leaveUnsettled(s) == [s EXCEPT !.pc = "returned"]

\* mutant: a no-frame result is rejected as in the format-specific calls
dataComplete_timeoutRejects(s) ==
    IF s.status # "ok" THEN rejectStatus(s)
    ELSE CASE s.frameType = "video" -> videoComplete(s)
           [] s.frameType = "audio" -> audioComplete(s)
           [] s.frameType = "metadata" -> metadataComplete(s)
           [] s.frameType = "error" -> rejectStatus([s EXCEPT !.status = "ConnectionLost"])
           [] s.frameType = "source_change" -> resolveWith(s, "sourceChange")
           [] s.frameType = "status_change" -> resolveWith(s, "statusChange")
           [] s.frameType = "none" -> rejectStatus([s EXCEPT !.status = "NotFound"])
           [] s.frameType = "max" -> rejectStatus([s EXCEPT !.status = "AsyncFailure"])
           [] OTHER -> leaveUnsettled(s)

\* mutant: the two notification kinds are told apart the wrong way round
dataComplete_swapped(s) ==
    IF s.status # "ok" THEN rejectStatus(s)
    ELSE CASE s.frameType = "video" -> videoComplete(s)
           [] s.frameType = "audio" -> audioComplete(s)
           [] s.frameType = "metadata" -> metadataComplete(s)
           [] s.frameType = "error" -> rejectStatus([s EXCEPT !.status = "ConnectionLost"])
           [] s.frameType = "source_change" -> resolveWith(s, "statusChange")
           [] s.frameType = "status_change" -> resolveWith(s, "sourceChange")
           [] s.frameType = "none" -> resolveWith(s, "timeout")
           [] s.frameType = "max" -> rejectStatus([s EXCEPT !.status = "AsyncFailure"])
           [] OTHER -> leaveUnsettled(s)

\* body of dataReceiveComplete: dispatch on c->frameType
dataComplete(s) ==
    IF s.status # "ok" THEN rejectStatus(s)
    ELSE CASE s.frameType = "video" -> videoComplete(s)
           [] s.frameType = "audio" -> audioComplete(s)
           [] s.frameType = "metadata" -> metadataComplete(s)
           [] s.frameType = "error" -> rejectStatus([s EXCEPT !.status = "ConnectionLost"])
           [] s.frameType = "source_change" -> resolveWith(s, "sourceChange")
           [] s.frameType = "status_change" -> resolveWith(s, "statusChange")
           [] s.frameType = "none" -> resolveWith(s, "timeout")
           [] s.frameType = "max" -> rejectStatus([s EXCEPT !.status = "AsyncFailure"])
           [] OTHER -> leaveUnsettled(s)

videoReceiveComplete(c) ==
    /\ call[c].pc = "executed"
    /\ call[c].kind = "video"
    /\ call' = [call EXCEPT ![c] = videoComplete(@)]
    /\ UNCHANGED <<recv, fs, frame, sender, addon>>

audioReceiveComplete(c) ==
    /\ call[c].pc = "executed"
    /\ call[c].kind = "audio"
    /\ call' = [call EXCEPT ![c] = audioComplete(@)]
    /\ UNCHANGED <<recv, fs, frame, sender, addon>>

metadataReceiveComplete(c) ==
    /\ call[c].pc = "executed"
    /\ call[c].kind = "metadata"
    /\ call' = [call EXCEPT ![c] = metadataComplete(@)]
    /\ UNCHANGED <<recv, fs, frame, sender, addon>>

dataReceiveComplete(c) ==
    /\ call[c].pc = "executed"
    /\ call[c].kind = "data"
    /\ call' = [call EXCEPT ![c] = dataComplete(@)]
    /\ UNCHANGED <<recv, fs, frame, sender, addon>>

\* ------------------------------------------------------------------------
\* Frame-sync calls
\* ------------------------------------------------------------------------
\* the forms of the fieldType argument of frameSync.video
FieldTypeArgs == {"undefined", "valid", "notNumber", "invalid"}

framesyncVideoArgsStatus(a) ==
    CASE a = "notNumber" -> "InvalidArgs"
      [] a = "invalid" -> "InvalidArgs"
      [] OTHER -> "ok"

\* the forms of the options argument of frameSync.audio
AudioPullArgs ==
    {"undefined", "options", "notObject", "sampleRateNotNumber",
     "noChannelsNotNumber", "noSamplesNotNumber"}

framesyncAudioArgsStatus(a) ==
    CASE a = "notObject" -> "InvalidArgs"
      [] a = "sampleRateNotNumber" -> "InvalidArgs"
      [] a = "noChannelsNotNumber" -> "InvalidArgs"
      [] a = "noSamplesNotNumber" -> "InvalidArgs"
      [] OTHER -> "ok"

\* Common entry of framesyncVideo and framesyncAudio: make the promise, read
\* the wrapper out of "embedded" (rejecting when it is not an external),
\* check the argument, queue the work item
startFramesyncCall(c, kind, f, status, malformed) ==
    /\ call[c].pc = "idle"
    /\ fs[f].pc = "open"
    /\ fs[f].held
    /\ call' = [call EXCEPT ![c] =
                  IF fs[f].embedded # "external" \/ status # "ok"
                  THEN [@ EXCEPT !.pc = "settled", !.kind = kind,
                                 !.malformed = malformed,
                                 !.status = "InvalidArgs",
                                 !.promise = "rejected", !.value = "InvalidArgs",
                                 !.log = <<Ev("entry", "reject")>>]
                  ELSE [@ EXCEPT !.pc = "queued", !.kind = kind, !.fs = f,
                                 !.malformed = malformed,
                                 !.promise = "pending"]]
    /\ UNCHANGED <<recv, fs, frame, sender, addon>>

framesyncVideo(c) ==
    \E f \in FrameSyncs, a \in FieldTypeArgs :
        startFramesyncCall(c, "framesyncVideo", f, framesyncVideoArgsStatus(a),
                           a \in {"notNumber", "invalid"})

framesyncAudio(c) ==
    \E f \in FrameSyncs, a \in AudioPullArgs :
        startFramesyncCall(c, "framesyncAudio", f, framesyncAudioArgsStatus(a),
                           a \notin {"undefined", "options"})

\* What NDIlib_framesync_capture_video leaves in the frame: a video frame,
\* a frame without data (p_data null), or a frame without size (xres or
\* yres zero)
FramesyncPulls == {"video", "noData", "noSize"}

\* mutant: only a null p_data counts as no video
noVideoOf_dataOnly(pull) == pull = "noData"

\* c->noVideo as set by framesyncVideoExecute
noVideoOf(pull) == pull # "video"

\* videoDataSize(c->videoFrame) == 0
videoDataEmpty(pull) == pull # "video"

\* the wrapper c->wrapper points to has been deleted by destroyFrameSync or
\* by the finalizer, and its native frame-sync destroyed
FramesyncWrapperGone(f) ==
    fs[f].wrapper # "alive" \/ fs[f].fsptr # "set"

\* the call reads c->wrapper->fs of a wrapper that has been released, or
\* uses a frame-sync whose receiver has been destroyed
FramesyncDangling(f) ==
    FramesyncWrapperGone(f) \/ NativeFreed(fs[f].recv)

\* ~Guard() of the completion functions: the pulled frame is handed back
\* through c->wrapper->fs when the function is left, after the promise has
\* been settled
guardFree(s) ==
    [s EXCEPT !.frees = @ + 1, !.dangling = @ \/ FramesyncDangling(s.fs),
              !.staleWrapper = @ \/ FramesyncWrapperGone(s.fs),
              !.log = Append(@, Ev("complete", "free"))]

\* mutant: a pull without video resolves the promise from the worker
framesyncVideoExecute_resolves(c) ==
    /\ call[c].pc = "queued"
    /\ call[c].kind = "framesyncVideo"
    /\ \E pull \in FramesyncPulls :
         call' = [call EXCEPT ![c] =
                    IF noVideoOf(pull)
                    THEN [@ EXCEPT !.pc = "settled", !.captures = @ + 1,
                                   !.frameType = pull, !.noVideo = TRUE,
                                   !.nativeBy = @ \cup {"execute"},
                                   !.promise = "resolved", !.value = "timeout",
                                   !.log = Append(@, Ev("execute", "resolve"))]
                    ELSE [@ EXCEPT !.pc = "executed", !.captures = @ + 1,
                                   !.frameType = pull, !.noVideo = FALSE,
                                   !.nativeBy = @ \cup {"execute"}]]
    /\ UNCHANGED <<recv, fs, frame, sender, addon>>

\* framesyncVideoExecute: one NDIlib_framesync_capture_video, which returns
\* at once
framesyncVideoExecute(c) ==
    /\ call[c].pc = "queued"
    /\ call[c].kind = "framesyncVideo"
    /\ \E pull \in FramesyncPulls :
         call' = [call EXCEPT ![c] =
                    [@ EXCEPT !.pc = "executed", !.captures = @ + 1,
                              !.frameType = pull, !.noVideo = noVideoOf(pull),
                              !.nativeBy = @ \cup {"execute"},
                              !.staleWrapper = @ \/ FramesyncWrapperGone(call[c].fs),
                              !.dangling = @ \/ FramesyncDangling(call[c].fs)]]
    /\ UNCHANGED <<recv, fs, frame, sender, addon>>

\* framesyncVideoComplete: the frame is handed back when the function is
\* left; a call without video resolves with type "timeout", an empty buffer
\* rejects, any other frame resolves with type "video"
framesyncVideoComplete(c) ==
    /\ call[c].pc = "executed"
    /\ call[c].kind = "framesyncVideo"
    /\ LET s == call[c]
       IN call' = [call EXCEPT ![c] =
                     guardFree(IF s.noVideo THEN resolveWith(s, "timeout")
                               ELSE IF videoDataEmpty(s.frameType)
                               THEN rejectStatus([s EXCEPT !.status = "NotVideo"])
                               ELSE resolveWith(copyPayload(s), "video"))]
    /\ UNCHANGED <<recv, fs, frame, sender, addon>>

\* framesyncAudioExecute: one NDIlib_framesync_capture_audio_v2, which
\* always returns a frame
framesyncAudioExecute(c) ==
    /\ call[c].pc = "queued"
    /\ call[c].kind = "framesyncAudio"
    /\ call' = [call EXCEPT ![c] =
                  [@ EXCEPT !.pc = "executed", !.captures = @ + 1,
                            !.frameType = "audio",
                            !.nativeBy = @ \cup {"execute"},
                            !.staleWrapper = @ \/ FramesyncWrapperGone(call[c].fs),
                            !.dangling = @ \/ FramesyncDangling(call[c].fs)]]
    /\ UNCHANGED <<recv, fs, frame, sender, addon>>

\* framesyncAudioComplete: build the result, resolve; the frame is handed
\* back when the function is left
framesyncAudioComplete(c) ==
    /\ call[c].pc = "executed"
    /\ call[c].kind = "framesyncAudio"
    /\ call' = [call EXCEPT ![c] = guardFree(resolveWith(copyPayload(@), "audio"))]
    /\ UNCHANGED <<recv, fs, frame, sender, addon>>

\* ------------------------------------------------------------------------
\* Frame marshaling: tick values
\* ------------------------------------------------------------------------
\* A native int64 tick value (100 ns units) is written as the pair hi, lo
\* that stands for hi * 2^31 + lo with 0 <= lo < 2^31.
TickLows == {0, 1, 9999999, 10000000, 1608260661, 2147483647}
Ticks == [hi : 0 .. MaxTickHigh, lo : TickLows]

\* 2^31 = Word31Seconds * TicksPerSecond + Word31Ticks
Word31Seconds == Int32Max \div TicksPerSecond
Word31Ticks == (Int32Max % TicksPerSecond) + 1

\* the ticks of t beyond its whole seconds, before the carry is taken out
TickCarry(t) == t.hi * Word31Ticks + (t.lo % TicksPerSecond)

\* t / 10000000 and t % 10000000 in int64 arithmetic
TickSeconds(t) ==
    t.hi * Word31Seconds + (t.lo \div TicksPerSecond) + (TickCarry(t) \div TicksPerSecond)
TickRemainder(t) == TickCarry(t) % TicksPerSecond

\* (int32_t)t: the low 32 bits of t read as a signed number
ToInt32(t) == IF t.hi % 2 = 1 THEN (t.lo - Int32Max) - 1 ELSE t.lo

\* a / b as C++ divides ints: the quotient is cut towards zero
TruncDiv(a, b) ==
    IF a >= 0 \/ a % b = 0 THEN a \div b ELSE (a \div b) + 1

\* (int32_t)(t / 10000000): the quotient of the ticks of the model lies in
\* the int32 range, where the cast leaves it as it is
secondsOfQuotient(t) == TickSeconds(t)

\* (int32_t)t / 10000000: the cast is applied to t before the division
secondsOfCast(t) == TruncDiv(ToInt32(t), TicksPerSecond)

\* (t % 10000000) * 100
nanosOf(t) == TickRemainder(t) * NanosPerTick

\* ------------------------------------------------------------------------
\* Frame marshaling: audio layout
\* ------------------------------------------------------------------------
AudioFormats == {"float_32_separate", "float_32_interleaved", "int_16_interleaved"}

\* mutant: the stride of the native layout is emitted for every format
audioStrideFactor_one(audioFormat) == 1

\* int32_t factor = (c->audioFormat == Grandi_audio_format_int_16_interleaved) ? 2 : 1
audioStrideFactor(audioFormat) ==
    IF audioFormat = "int_16_interleaved" THEN 2 ELSE 1

\* mutant: the buffer is sized from the native stride for every format
audioBufferBytes_native(f) == f.stride * f.channels

\* size of the buffer copied by audioReceiveComplete
audioBufferBytes(f) ==
    TruncDiv(f.stride, audioStrideFactor(f.audioFormat)) * f.channels

\* size_t audioBytes of framesyncAudioComplete
framesyncAudioBytes(f) ==
    IF f.payload /\ f.channels > 0 /\ f.stride > 0
    THEN f.stride * f.channels
    ELSE 0

\* ------------------------------------------------------------------------
\* Frame marshaling: the native frames and the result objects
\* ------------------------------------------------------------------------
\* c->audioFrame.channel_stride_in_bytes of a planar float frame, as the
\* native layer sets it: the samples of one channel and the padding, if any,
\* that follows them
NativeStride(samples, padding) == BytesPerFloat * (samples + padding)

\* size in bytes of the buffer audioReceiveExecute and dataReceiveExecute
\* allocate for an interleaved format: new short[no_samples * no_channels],
\* new float[no_samples * no_channels]
conversionBufferBytes(f) ==
    IF f.audioFormat = "int_16_interleaved"
    THEN 2 * f.samples * f.channels
    ELSE BytesPerFloat * f.samples * f.channels

TimedFrame(site, ts, tc) ==
    [NoFrame EXCEPT !.pc = "native", !.site = site, !.timestamp = ts, !.timecode = tc]

AudioFrame(site, ts, tc, fmt, n, ch, pad) ==
    [TimedFrame(site, ts, tc) EXCEPT !.audioFormat = fmt, !.samples = n,
                                     !.channels = ch,
                                     !.stride = NativeStride(n, pad),
                                     !.payload = (n > 0 /\ ch > 0)]

\* The frames handed to the completion functions: video and metadata frames
\* with any tick values; captured audio frames, which carry samples, with
\* any of the three formats asked for; frame-sync audio pulls, which may
\* come without samples or without a known channel count
NativeFrames ==
    {TimedFrame(site, ts, tc) :
        site \in {"videoReceive", "framesyncVideo"}, ts \in Ticks, tc \in Ticks}
    \cup {TimedFrame("metadataReceive", [hi |-> 0, lo |-> 0], tc) : tc \in Ticks}
    \cup {AudioFrame("audioReceive", ts, ts, fmt, n, ch, pad) :
            ts \in Ticks, fmt \in AudioFormats,
            n \in 1 .. MaxSamples, ch \in 1 .. MaxChannels,
            pad \in 0 .. MaxStridePadding}
    \cup {AudioFrame("audioReceive", [hi |-> 0, lo |-> 0], tc, "float_32_separate", 1, 1, 0) :
            tc \in Ticks}
    \cup {AudioFrame("framesyncAudio", ts, tc, "float_32_separate", n, ch, 0) :
            ts \in {t \in Ticks : t.hi = 0}, tc \in Ticks,
            n \in 0 .. MaxSamples, ch \in 0 .. MaxChannels}

emit(out) == frame' = [frame EXCEPT !.pc = "emitted", !.out = out]

\* the timestamp and timecode arrays built by videoReceiveComplete
videoReceiveResult ==
    /\ frame.pc = "native" /\ frame.site = "videoReceive"
    /\ emit([NoOut EXCEPT
                !.timestamp = <<secondsOfQuotient(frame.timestamp), nanosOf(frame.timestamp)>>,
                !.timecode = <<secondsOfCast(frame.timecode), nanosOf(frame.timecode)>>])
    /\ UNCHANGED <<recv, fs, call, sender, addon>>

\* the timestamp, timecode, channels, channelStrideInBytes and data built by
\* audioReceiveComplete
audioReceiveResult ==
    /\ frame.pc = "native" /\ frame.site = "audioReceive"
    /\ emit([timestamp |-> <<secondsOfQuotient(frame.timestamp), nanosOf(frame.timestamp)>>,
             timecode |-> <<secondsOfQuotient(frame.timecode), nanosOf(frame.timecode)>>,
             channels |-> frame.channels,
             channelStrideInBytes |->
                 TruncDiv(frame.stride, audioStrideFactor(frame.audioFormat)),
             dataLength |-> audioBufferBytes(frame)])
    /\ UNCHANGED <<recv, fs, call, sender, addon>>

\* metadataReceiveComplete: one pair made from the timecode is stored both
\* as "timestamp" and as "timecode"
metadataReceiveResult ==
    /\ frame.pc = "native" /\ frame.site = "metadataReceive"
    /\ emit([NoOut EXCEPT
                !.timestamp = <<secondsOfQuotient(frame.timecode), nanosOf(frame.timecode)>>,
                !.timecode = <<secondsOfQuotient(frame.timecode), nanosOf(frame.timecode)>>])
    /\ UNCHANGED <<recv, fs, call, sender, addon>>

\* the timestamp and timecode arrays built by framesyncVideoComplete
framesyncVideoResult ==
    /\ frame.pc = "native" /\ frame.site = "framesyncVideo"
    /\ emit([NoOut EXCEPT
                !.timestamp = <<secondsOfQuotient(frame.timestamp), nanosOf(frame.timestamp)>>,
                !.timecode = <<secondsOfCast(frame.timecode), nanosOf(frame.timecode)>>])
    /\ UNCHANGED <<recv, fs, call, sender, addon>>

\* the timestamp, timecode, channels, channelStrideInBytes and data built by
\* framesyncAudioComplete
framesyncAudioResult ==
    /\ frame.pc = "native" /\ frame.site = "framesyncAudio"
    /\ emit([timestamp |-> <<secondsOfQuotient(frame.timestamp), nanosOf(frame.timestamp)>>,
             timecode |-> <<secondsOfCast(frame.timecode), nanosOf(frame.timecode)>>,
             channels |-> frame.channels,
             channelStrideInBytes |-> frame.stride,
             dataLength |-> framesyncAudioBytes(frame)])
    /\ UNCHANGED <<recv, fs, call, sender, addon>>

\* ------------------------------------------------------------------------
\* Specifications
\* ------------------------------------------------------------------------
\* Handle lifetime: every receiver and frame-sync operation, no capture call
\* in flight (capture calls change neither recv nor fs)
Next ==
    \/ \E r \in Receivers : receive(r, JsUndefined, JsUndefined)
    \/ \E r \in Receivers : receiveExecute(r)
    \/ \E r \in Receivers : receiveComplete(r)
    \/ \E r \in Receivers : destroyReceive(r)
    \/ \E r \in Receivers : dropReceiver(r)
    \/ \E r \in Receivers : finalizeReceive(r)
    \/ \E f \in FrameSyncs, r \in Receivers : framesync(f, r)
    \/ \E f \in FrameSyncs : framesyncExecute(f)
    \/ \E f \in FrameSyncs : framesyncComplete(f)
    \/ \E f \in FrameSyncs : destroyFrameSync(f)
    \/ \E f \in FrameSyncs : dropFrameSync(f)
    \/ \E f \in FrameSyncs : finalizeFrameSync(f)

Spec == Init /\ [][Next]_vars

\* Capture calls on one receiver, interleaved with that receiver's creation,
\* destruction and finalization
CaptureReceivers == {"r1"}

CaptureNext ==
    \/ \E r \in CaptureReceivers : receive(r, JsUndefined, JsUndefined)
    \/ \E r \in CaptureReceivers : receiveExecute(r)
    \/ \E r \in CaptureReceivers : receiveComplete(r)
    \/ \E r \in CaptureReceivers : destroyReceive(r)
    \/ \E r \in CaptureReceivers : dropReceiver(r)
    \/ \E r \in CaptureReceivers : finalizeReceive(r)
    \/ \E c \in Calls : videoReceive(c)
    \/ \E c \in Calls : audioReceive(c)
    \/ \E c \in Calls : metadataReceive(c)
    \/ \E c \in Calls : dataReceive(c)
    \/ \E c \in Calls : captureUntilFrame(c)
    \/ \E c \in Calls : dataReceiveExecute(c)
    \/ \E c \in Calls : videoReceiveComplete(c)
    \/ \E c \in Calls : audioReceiveComplete(c)
    \/ \E c \in Calls : metadataReceiveComplete(c)
    \/ \E c \in Calls : dataReceiveComplete(c)

CaptureSpec == Init /\ [][CaptureNext]_vars

\* a native capture of call c that returns with the steady clock further on
ClockAdvances(c) ==
    captureUntilFrame(c) /\ call'[c].elapsed > call[c].elapsed

\* The capture loops of the calls on a receiver that stays open
CaptureLiveNext ==
    \/ \E r \in CaptureReceivers : receive(r, JsUndefined, JsUndefined)
    \/ \E r \in CaptureReceivers : receiveExecute(r)
    \/ \E r \in CaptureReceivers : receiveComplete(r)
    \/ \E c \in Calls : videoReceive(c)
    \/ \E c \in Calls : audioReceive(c)
    \/ \E c \in Calls : metadataReceive(c)
    \/ \E c \in Calls : captureUntilFrame(c)
    \/ \E c \in Calls : videoReceiveComplete(c)
    \/ \E c \in Calls : audioReceiveComplete(c)
    \/ \E c \in Calls : metadataReceiveComplete(c)

\* Capture calls whose worker runs and whose native captures return, with
\* the steady clock going forward while the loop runs
CaptureLiveSpec ==
    /\ Init
    /\ [][CaptureLiveNext]_vars
    /\ \A c \in Calls : WF_vars(ClockAdvances(c))

\* Frame-sync calls on one frame-sync, interleaved with the creation,
\* destruction and finalization of the frame-sync and of its receiver
FrameSyncCallNext ==
    \/ \E r \in CaptureReceivers : receive(r, JsUndefined, JsUndefined)
    \/ \E r \in CaptureReceivers : receiveExecute(r)
    \/ \E r \in CaptureReceivers : receiveComplete(r)
    \/ \E r \in CaptureReceivers : destroyReceive(r)
    \/ \E r \in CaptureReceivers : dropReceiver(r)
    \/ \E r \in CaptureReceivers : finalizeReceive(r)
    \/ \E f \in FrameSyncs, r \in CaptureReceivers : framesync(f, r)
    \/ \E f \in FrameSyncs : framesyncExecute(f)
    \/ \E f \in FrameSyncs : framesyncComplete(f)
    \/ \E f \in FrameSyncs : destroyFrameSync(f)
    \/ \E f \in FrameSyncs : dropFrameSync(f)
    \/ \E f \in FrameSyncs : finalizeFrameSync(f)
    \/ \E c \in Calls : framesyncVideo(c)
    \/ \E c \in Calls : framesyncAudio(c)
    \/ \E c \in Calls : framesyncVideoExecute(c)
    \/ \E c \in Calls : framesyncVideoComplete(c)
    \/ \E c \in Calls : framesyncAudioExecute(c)
    \/ \E c \in Calls : framesyncAudioComplete(c)

FrameSyncCallSpec == Init /\ [][FrameSyncCallNext]_vars

\* The work items of one receiver and one frame-sync that stay open: their
\* creation, and the entry, execute and completion steps of every call
WorkNext ==
    \/ \E r \in CaptureReceivers : receive(r, JsUndefined, JsUndefined)
    \/ \E r \in CaptureReceivers : receiveExecute(r)
    \/ \E r \in CaptureReceivers : receiveComplete(r)
    \/ \E f \in FrameSyncs, r \in CaptureReceivers : framesync(f, r)
    \/ \E f \in FrameSyncs : framesyncExecute(f)
    \/ \E f \in FrameSyncs : framesyncComplete(f)
    \/ \E c \in Calls : videoReceive(c)
    \/ \E c \in Calls : audioReceive(c)
    \/ \E c \in Calls : metadataReceive(c)
    \/ \E c \in Calls : dataReceive(c)
    \/ \E c \in Calls : captureUntilFrame(c)
    \/ \E c \in Calls : dataReceiveExecute(c)
    \/ \E c \in Calls : videoReceiveComplete(c)
    \/ \E c \in Calls : audioReceiveComplete(c)
    \/ \E c \in Calls : metadataReceiveComplete(c)
    \/ \E c \in Calls : dataReceiveComplete(c)
    \/ \E c \in Calls : framesyncVideo(c)
    \/ \E c \in Calls : framesyncAudio(c)
    \/ \E c \in Calls : framesyncVideoExecute(c)
    \/ \E c \in Calls : framesyncVideoComplete(c)
    \/ \E c \in Calls : framesyncAudioExecute(c)
    \/ \E c \in Calls : framesyncAudioComplete(c)

WorkSpec == Init /\ [][WorkNext]_vars

\* Two capture calls at a time on one receiver that stays open
ConcurrentCalls == {"c1", "c2"}

ConcurrentInit ==
    /\ recv = [r \in Receivers |-> InitRecv]
    /\ fs = [f \in FrameSyncs |-> InitFs]
    /\ call = [c \in ConcurrentCalls |-> InitCall]
    /\ frame = NoFrame
    /\ sender = InitSender
    /\ addon = NativeAddon

\* the arguments of the concurrent calls: a timeout, or an options object
\* and a timeout
ConcurrentFirstArgs ==
    {JsPlain(JsNumber(1)), JsOptions(JsNumber(2), JsNumber(0))}

ConcurrentArgs(c) ==
    /\ call'[c].args[1] \in ConcurrentFirstArgs
    /\ call'[c].args[2] = IF call'[c].args[1].type = "object"
                          THEN JsNumber(1) ELSE JsUndefined

ConcurrentNext ==
    \/ \E r \in CaptureReceivers : receive(r, JsUndefined, JsUndefined)
    \/ \E r \in CaptureReceivers : receiveExecute(r)
    \/ \E r \in CaptureReceivers : receiveComplete(r)
    \/ \E c \in ConcurrentCalls : audioReceive(c) /\ ConcurrentArgs(c)
    \/ \E c \in ConcurrentCalls : dataReceive(c) /\ ConcurrentArgs(c)
    \/ \E c \in ConcurrentCalls : captureUntilFrame(c)
    \/ \E c \in ConcurrentCalls : dataReceiveExecute(c)
    \/ \E c \in ConcurrentCalls : audioReceiveComplete(c)
    \/ \E c \in ConcurrentCalls : dataReceiveComplete(c)

ConcurrentSpec == ConcurrentInit /\ [][ConcurrentNext]_vars

\* ------------------------------------------------------------------------
\* Tally
\* ------------------------------------------------------------------------
\* the values of the onProgram and onPreview properties callers pass
TallyProps == {"undefined", "true", "false", "string"}

\* the arguments of receiver.tally: an object with the two properties, or
\* something that is not an object
TallyArgs ==
    {[isObject |-> o, onProgram |-> p, onPreview |-> q] :
        o \in BOOLEAN, p \in TallyProps, q \in TallyProps}

\* setReceiveTally: throw when "embedded" is not an external, when the
\* argument is not an object or when a property is present and not a
\* Boolean; else hand the two flags (false when absent) to
\* NDIlib_recv_set_tally and return true
setReceiveTally(r) ==
    /\ recv[r].pc = "open"
    /\ recv[r].held
    /\ \E a \in TallyArgs :
         recv' = [recv EXCEPT ![r] =
                    IF \/ recv[r].embedded # "external"
                       \/ ~a.isObject
                       \/ a.onProgram = "string"
                       \/ a.onPreview = "string"
                    THEN [@ EXCEPT !.tallyRet = "throws"]
                    ELSE [@ EXCEPT !.tallyRet = "true",
                                   !.tally = [on_program |-> a.onProgram = "true",
                                              on_preview |-> a.onPreview = "true"]]]
    /\ UNCHANGED <<fs, call, frame, sender, addon>>

\* the tally state the sender is due to hold: what the receiver connected
\* to it has set, and nothing once that receiver has been destroyed
TallyTarget(r) == IF NativeFreed(r) THEN NoTally ELSE recv[r].tally

SenderTallyState == [on_program |-> sender.on_program, on_preview |-> sender.on_preview]

\* the tally of the receiver reaches the sender
tallyArrives(r) ==
    /\ recv[r].pc = "open"
    /\ TallyTarget(r) # SenderTallyState
    /\ sender.edges < MaxTallyEdges
    /\ sender' = [sender EXCEPT !.on_program = TallyTarget(r).on_program,
                                !.on_preview = TallyTarget(r).on_preview,
                                !.changed = TRUE,
                                !.edges = @ + 1]
    /\ UNCHANGED <<recv, fs, call, frame, addon>>

\* mutant: the changed flag is not taken back by a poll
senderTally_level ==
    /\ sender' = [sender EXCEPT !.polled = TRUE, !.edges = 0,
                                !.last = [changed |-> sender.changed,
                                          on_program |-> sender.on_program,
                                          on_preview |-> sender.on_preview,
                                          edges |-> sender.edges]]
    /\ UNCHANGED <<recv, fs, call, frame, addon>>

\* sender.tally(): the state the sender holds and whether it has changed
\* since the last call
senderTally ==
    /\ sender' = [sender EXCEPT !.polled = TRUE, !.edges = 0, !.changed = FALSE,
                                !.last = [changed |-> sender.changed,
                                          on_program |-> sender.on_program,
                                          on_preview |-> sender.on_preview,
                                          edges |-> sender.edges]]
    /\ UNCHANGED <<recv, fs, call, frame, addon>>

\* A sender, and one receiver connected to it that sets its tally and is
\* destroyed or collected
TallyNext ==
    \/ \E r \in CaptureReceivers : receive(r, JsUndefined, JsUndefined)
    \/ \E r \in CaptureReceivers : receiveExecute(r)
    \/ \E r \in CaptureReceivers : receiveComplete(r)
    \/ \E r \in CaptureReceivers : destroyReceive(r)
    \/ \E r \in CaptureReceivers : dropReceiver(r)
    \/ \E r \in CaptureReceivers : finalizeReceive(r)
    \/ \E r \in CaptureReceivers : setReceiveTally(r)
    \/ \E r \in CaptureReceivers : tallyArrives(r)
    \/ senderTally

TallySpec == Init /\ [][TallyNext]_vars

\* The handles of one receiver and one frame-sync through creation, use and
\* destruction: the entry step of every operation a handle offers. audio and
\* data are called with a timeout, an options object and a timeout, or an
\* array.
HandleArgs(c) ==
    /\ call'[c].args[1] \in ConcurrentFirstArgs \cup {JsArray}
    /\ call'[c].args[2] = IF call'[c].args[1].type = "object"
                          THEN JsNumber(1) ELSE JsUndefined

HandleNext ==
    \/ \E r \in CaptureReceivers : receive(r, JsUndefined, JsUndefined)
    \/ \E r \in CaptureReceivers : receiveExecute(r)
    \/ \E r \in CaptureReceivers : receiveComplete(r)
    \/ \E r \in CaptureReceivers : destroyReceive(r)
    \/ \E f \in FrameSyncs, r \in CaptureReceivers : framesync(f, r)
    \/ \E f \in FrameSyncs : framesyncExecute(f)
    \/ \E f \in FrameSyncs : framesyncComplete(f)
    \/ \E f \in FrameSyncs : destroyFrameSync(f)
    \/ \E c \in Calls : videoReceive(c)
    \/ \E c \in Calls : audioReceive(c) /\ HandleArgs(c)
    \/ \E c \in Calls : metadataReceive(c)
    \/ \E c \in Calls : dataReceive(c) /\ HandleArgs(c)
    \/ \E r \in CaptureReceivers : setReceiveTally(r)
    \/ \E c \in Calls : framesyncVideo(c)
    \/ \E c \in Calls : framesyncAudio(c)
    \/ \E f \in FrameSyncs : audioQueueDepth(f)

HandleSpec == Init /\ [][HandleNext]_vars

\* ------------------------------------------------------------------------
\* The entry point of the package (src/index.ts)
\* ------------------------------------------------------------------------
Platforms == {"darwin", "linux", "win32", "freebsd"}
Archs == {"x64", "ia32", "arm64", "mips"}

\* mutant: win32 counts as supported on every architecture
isSupportedPlatform_anyArch(platform, arch) ==
    platform \in {"darwin", "linux", "win32"}

\* isSupportedPlatform(), with process.platform and process.arch as
\* parameters
isSupportedPlatform(platform, arch) ==
    \/ platform = "darwin"
    \/ platform = "linux"
    \/ (platform = "win32" /\ arch \in {"ia32", "x64"})

AsyncExports == {"find", "send", "receive", "framesync", "routing"}
SyncExports == {"version", "isSupportedCPU", "initialize", "destroy"}

\* the arguments callers pass: none, or one of two options objects
ExportArgs == {"undefined", "optionsA", "optionsB"}

Unsupported == "rejected: Unsupported platform or CPU"

\* what the functions of noopAddon return
noopAddon(fn) ==
    CASE fn = "version" -> "emptyString"
      [] fn \in {"isSupportedCPU", "initialize", "destroy"} -> "false"
      [] OTHER -> Unsupported

\* const addon = isSupportedPlatform() ? nodeGypBuild(...) : noopAddon,
\* evaluated when the module is imported; an exception of nodeGypBuild is
\* not caught and ends the evaluation of the module
importModule ==
    /\ addon.pc = "unloaded"
    /\ addon' =
         IF isSupportedPlatform(addon.platform, addon.arch)
         THEN IF addon.loadable
              THEN [addon EXCEPT !.pc = "loaded", !.uses = "native",
                                 !.loaderCalls = @ + 1]
              ELSE [addon EXCEPT !.pc = "failed", !.loaderCalls = @ + 1]
         ELSE [addon EXCEPT !.pc = "loaded", !.uses = "noop"]
    /\ UNCHANGED <<recv, fs, call, frame, sender>>

\* addon.fn(received): the function of noopAddon, or that of the native
\* addon, which is handed `received`
addonCall(fn, arg, received) ==
    addon' = [addon EXCEPT !.last =
                IF addon.uses = "noop"
                THEN [fn |-> fn, arg |-> arg, received |-> "-",
                      outcome |-> noopAddon(fn)]
                ELSE [fn |-> fn, arg |-> arg, received |-> received,
                      outcome |-> "native"]]

\* mutant: find hands its parameter on as it is
findParams_noDefault(params) == params

\* the default of the parameter of find: params = {}
findParams(params) == IF params = "undefined" THEN "{}" ELSE params

\* export function find(params = {}) { return addon.find(params) }
find(params) ==
    /\ addon.pc = "loaded"
    /\ addonCall("find", params, findParams(params))
    /\ UNCHANGED <<recv, fs, call, frame, sender>>

\* export const send = addon.send, and likewise receive, framesync,
\* routing: the export is the function of the addon itself
exportedAsync(fn, arg) ==
    /\ addon.pc = "loaded"
    /\ addonCall(fn, arg, arg)
    /\ UNCHANGED <<recv, fs, call, frame, sender>>

\* export const version = addon.version, and likewise isSupportedCPU,
\* initialize, destroy
exportedSync(fn) ==
    /\ addon.pc = "loaded"
    /\ addonCall(fn, "undefined", "undefined")
    /\ UNCHANGED <<recv, fs, call, frame, sender>>

\* The module on every host: any platform and architecture, with or without
\* a binding the loader can find
LoaderInit ==
    /\ recv = [r \in Receivers |-> InitRecv]
    /\ fs = [f \in FrameSyncs |-> InitFs]
    /\ call = [c \in Calls |-> InitCall]
    /\ frame = NoFrame
    /\ sender = InitSender
    /\ addon \in {[platform |-> p, arch |-> a, loadable |-> l, pc |-> "unloaded",
                    uses |-> "none", loaderCalls |-> 0, last |-> NoCall] :
                       p \in Platforms, a \in Archs, l \in BOOLEAN}

LoaderNext ==
    \/ importModule
    \/ \E params \in ExportArgs : find(params)
    \/ \E fn \in AsyncExports \ {"find"}, arg \in ExportArgs : exportedAsync(fn, arg)
    \/ \E fn \in SyncExports : exportedSync(fn)

LoaderSpec == LoaderInit /\ [][LoaderNext]_vars

\* The result objects built from native frames: every native frame of
\* NativeFrames, handed to the completion function of its site
\* The creation of receivers with every colour format and every form of the
\* allowVideoFields property
ReceiverOptionsNext ==
    \/ \E r \in Receivers, cf \in ColorFormatArgs, avf \in AllowVideoFieldsArgs :
           receive(r, cf, avf)
    \/ \E r \in Receivers : receiveExecute(r)
    \/ \E r \in Receivers : receiveComplete(r)

ReceiverOptionsSpec == Init /\ [][ReceiverOptionsNext]_vars

MarshalInit ==
    /\ recv = [r \in Receivers |-> InitRecv]
    /\ fs = [f \in FrameSyncs |-> InitFs]
    /\ call = [c \in Calls |-> InitCall]
    /\ frame \in NativeFrames
    /\ sender = InitSender
    /\ addon = NativeAddon

MarshalNext ==
    \/ videoReceiveResult
    \/ audioReceiveResult
    \/ metadataReceiveResult
    \/ framesyncVideoResult
    \/ framesyncAudioResult

MarshalSpec == MarshalInit /\ [][MarshalNext]_vars

\* ------------------------------------------------------------------------
\* Properties
\* ------------------------------------------------------------------------
\* destroy() results seen so far on a handle: true first, false ever after
TrueThenFalse(rets) == \A i \in DOMAIN rets : rets[i] = (i = 1)

\* C1: for a receiver handle and for a frame-sync handle, over any sequence
\* of destroy() calls and finalizations, destroy() returns true on the first
\* call and false on every later call, and the native destroy function is
\* invoked at most once for the handle (no second native free by a later
\* destroy or by a finalizer).
C1_DestroyedAtMostOnce ==
    /\ \A r \in Receivers :
         TrueThenFalse(recv[r].rets) /\ recv[r].destroys <= 1
    /\ \A f \in FrameSyncs :
         TrueThenFalse(fs[f].rets) /\ fs[f].fsDestroys <= 1
                                  /\ fs[f].wrapperDeletes <= 1

\* C2: while a frame-sync created from a receiver has not been destroyed,
\* the native handle of that receiver has not been freed, also when
\* receiver.destroy() is called before frameSync.destroy().
C2_ReceiverOutlivesFrameSync ==
    \A f \in FrameSyncs :
        (fs[f].pc = "open" /\ fs[f].wrapper = "alive" /\ fs[f].fsptr = "set")
            => ~NativeFreed(fs[f].recv)

\* C3: in any interleaving of video/audio/metadata/data calls with the
\* destruction of the receiver, no native capture and no native frame-free
\* call is executed on a receiver handle that has been destroyed.
C3_NoDanglingReceiverUse ==
    \A c \in Calls : ~call[c].dangling

\* the call was rejected by its entry function, before any work was queued
EntryRejected(s) == s.status \in {"InvalidArg", "InvalidArgs"}

\* the calls that run the capture loop
LoopCall(s) == s.kind \in Capturable /\ s.captures >= 1

\* the call has seen no incoming data: its native capture reported no frame
\* the first time it was made
SawNoData(s) == s.captures = 1 /\ s.frameType = "none"

\* C4: for every timeout t >= 1 ms, video(t), audio(t) and metadata(t) on a
\* receiver with no incoming data end with the TimedOut (not-found) error,
\* no earlier than t ms after the capture loop started and no later than t
\* plus the overhead of one native capture slice.
C4_IdleTimesOutAtT ==
    \A c \in Calls :
        LET s == call[c] IN
        (LoopCall(s) /\ s.arg >= 1 /\ SawNoData(s)) =>
            /\ s.pc \in {"executed", "settled"}
            /\ s.status = "NotFound"
            /\ s.arg <= s.elapsed
            /\ s.elapsed <= s.arg + SliceOverrun
            /\ s.pc = "settled" => (s.promise = "rejected" /\ s.value = "NotFound")

C4_Witness ==
    \E c \in Calls :
        /\ call[c].kind = "video" /\ call[c].arg = MaxWait
        /\ SawNoData(call[c])
        /\ call[c].promise = "rejected" /\ call[c].value = "NotFound"

\* C5: a video, audio or metadata capture issued with a zero or absent
\* timeout never ends in the TimedOut state, whatever the native capture
\* returns; it ends only on a frame of the requested kind or on a transport
\* error.
C5_ZeroWaitNeverTimesOut ==
    \A c \in Calls :
        LET s == call[c] IN
        (s.kind \in Capturable /\ s.arg \in {0, Absent} /\ s.pc \in {"executed", "settled"}
           /\ ~EntryRejected(s)) =>
            /\ s.status \in {"ok", "ConnectionLost", "NotVideo"}
            /\ s.frameType \in {s.kind, "error"}

\* C6: data(0) on an idle receiver never resolves, and data(t) with t > 0 on
\* an idle receiver resolves with a timeout event.
C6_DataZeroBlocks ==
    \A c \in Calls :
        LET s == call[c] IN
        (s.kind = "data" /\ s.captures >= 1 /\ s.frameType = "none") =>
            /\ s.wait = 0 => s.promise = "pending"
            /\ (s.wait > 0 /\ s.pc = "settled") =>
                   (s.promise = "resolved" /\ s.value = "timeout")

\* C7: when the native capture reports no frame within the timeout,
\* receiver.data resolves with the value of type "timeout" and does not
\* reject, while receiver.video, receiver.audio and receiver.metadata reject
\* with the TimedOut (not-found) error.
C7_TimeoutAsymmetry ==
    \A c \in Calls :
        LET s == call[c] IN
        (s.captures >= 1 /\ s.frameType = "none") =>
            /\ s.pc \in {"executed", "settled"}
            /\ s.kind \in Capturable => s.status = "NotFound"
            /\ (s.kind = "data" /\ s.pc = "settled") =>
                   (s.promise = "resolved" /\ s.value = "timeout")
            /\ (s.kind \in Capturable /\ s.pc = "settled") =>
                   (s.promise = "rejected" /\ s.value = "NotFound")

C7_Witness ==
    \E c \in Calls :
        /\ call[c].kind = "data" /\ call[c].arg >= 1
        /\ call[c].frameType = "none"
        /\ call[c].promise = "resolved" /\ call[c].value = "timeout"

\* the result receiver.data is said to give for each native frame type
DataResultOf(ft) ==
    CASE ft = "video" -> <<"resolved", "video">>
      [] ft = "audio" -> <<"resolved", "audio">>
      [] ft = "metadata" -> <<"resolved", "metadata">>
      [] ft = "source_change" -> <<"resolved", "sourceChange">>
      [] ft = "status_change" -> <<"resolved", "statusChange">>
      [] ft = "none" -> <<"resolved", "timeout">>
      [] ft = "error" -> <<"rejected", "ConnectionLost">>
      [] OTHER -> <<"rejected", "AsyncFailure">>

\* receiver.data makes one native capture per call and gives nothing back to
\* the native layer before its completion step
DataCapturesOnce(s) ==
    /\ s.pc = "queued" => s.captures = 0
    /\ s.pc \in {"executed", "settled"} => s.captures = 1
    /\ s.pc = "executed" => s.frees = 0
    /\ s.pc # "looping"

\* C8 as stated: receiver.data performs exactly one native capture per call
\* and returns whichever kind arrived first: native video, audio, metadata,
\* source-change, status-change and no-frame results resolve with type
\* "video", "audio", "metadata", "sourceChange", "statusChange" and
\* "timeout", and a native error rejects with ConnectionLost.
C8_DataReturnsFirstKind ==
    \A c \in Calls :
        LET s == call[c] IN
        (s.kind = "data" /\ ~EntryRejected(s)) =>
            /\ DataCapturesOnce(s)
            /\ s.pc = "settled" =>
                   <<s.promise, s.value>> = DataResultOf(s.frameType)

\* C8 amended: as C8, for every native result but a video frame whose
\* payload is null or empty; that one rejects with NotVideo.
C8_DataReturnsFirstKindWithPayload ==
    \A c \in Calls :
        LET s == call[c] IN
        (s.kind = "data" /\ ~EntryRejected(s)) =>
            /\ DataCapturesOnce(s)
            /\ s.pc = "settled" =>
                   <<s.promise, s.value>> =
                       IF s.frameType = "video" /\ s.empty
                       THEN <<"rejected", "NotVideo">>
                       ELSE DataResultOf(s.frameType)

C8_Witness ==
    \E c \in Calls :
        /\ call[c].kind = "data" /\ call[c].frameType = "status_change"
        /\ call[c].captures = 1
        /\ call[c].promise = "resolved" /\ call[c].value = "statusChange"

\* the budget left of timeout t when e ms have gone by since loop entry
BudgetLeft(t, e) == IF e >= t THEN 0 ELSE t - e

UnwantedFrame(s) ==
    LoopCall(s) /\ s.frameType \in Capturable /\ s.frameType # s.kind

\* C10: when a video/audio/metadata capture receives a frame of a different
\* capturable kind, that frame is released to the native layer at once and
\* exactly once, is never delivered (a call resolves only with a frame of its
\* own kind, released once by the completion), and the loop goes on with
\* only the budget that is left (the timeout minus the time since loop
\* entry; zero for a zero timeout), or ends in TimedOut when none is left.
C10_UnwantedFrameReleasedOnce ==
    \A c \in Calls :
        LET s == call[c] IN
        /\ UnwantedFrame(s) =>
              /\ s.frees = 1
              /\ s.promise # "resolved"
              /\ s.pc = "looping" => s.waitMs = BudgetLeft(s.wait, s.elapsed)
              /\ s.pc # "looping" =>
                    (s.wait > 0 /\ BudgetLeft(s.wait, s.elapsed) = 0
                       /\ s.status = "NotFound")
        /\ (s.kind \in Capturable /\ s.promise = "resolved") =>
              (s.frameType = s.kind /\ s.value = s.kind /\ s.frees = 1)

C10_Witness ==
    \E c \in Calls :
        /\ call[c].kind = "video" /\ call[c].frameType = "audio"
        /\ call[c].pc = "looping"
        /\ call[c].frees = 1
        /\ call[c].elapsed > 0 /\ call[c].waitMs > 0

\* the call has left the capture loop
Terminal(s) == s.pc \in {"executed", "settled"}

\* C11: when the native capture of a video, audio, metadata or data call
\* reports a transport error, the call ends with the ConnectionLost error at
\* once, whatever budget is left, and makes no further native capture.
C11_ErrorEndsCall ==
    /\ [](\A c \in Calls :
            LET s == call[c] IN
            (s.captures >= 1 /\ s.frameType = "error") =>
                /\ Terminal(s)
                /\ s.kind \in Capturable => s.status = "ConnectionLost"
                /\ s.pc = "settled" =>
                       (s.promise = "rejected" /\ s.value = "ConnectionLost"))
    /\ [][\A c \in Calls :
            (call[c].captures >= 1 /\ call[c].frameType = "error") =>
                /\ call'[c].captures = call[c].captures
                /\ call'[c].frameType = "error"
                /\ call'[c].elapsed = call[c].elapsed]_vars

C11_Witness ==
    \E c \in Calls :
        /\ call[c].kind = "video" /\ call[c].arg = MaxWait
        /\ call[c].captures >= 2
        /\ call[c].frameType = "error"
        /\ call[c].elapsed < call[c].arg
        /\ call[c].promise = "rejected" /\ call[c].value = "ConnectionLost"

\* the three ways a capture loop ends
Matched(s) == s.status = "ok" /\ s.frameType = s.kind
TimedOut(s) == s.status = "NotFound"
ConnectionLost(s) == s.status = "ConnectionLost" /\ s.frameType = "error"

\* C12: every video/audio/metadata capture dispatched with a timeout t > 0
\* eventually leaves the capture loop, for every sequence of frame types the
\* native capture returns; it ends in exactly one of Matched, TimedOut and
\* ConnectionLost; once it has ended, no further native capture is made.
C12_CaptureTerminates ==
    /\ \A c \in Calls :
          (call[c].pc = "queued" /\ call[c].kind \in Capturable /\ call[c].arg >= 1)
              ~> Terminal(call[c])
    /\ [](\A c \in Calls :
            LET s == call[c] IN
            (s.kind \in Capturable /\ s.arg >= 1 /\ Terminal(s)
               /\ ~EntryRejected(s) /\ s.status # "NotVideo") =>
                /\ Matched(s) \/ TimedOut(s) \/ ConnectionLost(s)
                /\ ~(Matched(s) /\ TimedOut(s))
                /\ ~(Matched(s) /\ ConnectionLost(s))
                /\ ~(TimedOut(s) /\ ConnectionLost(s)))
    /\ [][\A c \in Calls :
            (call[c].kind \in Capturable /\ Terminal(call[c])) =>
                /\ Terminal(call'[c])
                /\ call'[c].captures = call[c].captures
                /\ call'[c].frameType = call[c].frameType
                /\ call'[c].elapsed = call[c].elapsed]_vars

C12_Witness ==
    \E c \in Calls :
        /\ call[c].kind = "audio" /\ call[c].arg = MaxWait
        /\ call[c].captures = MaxCaptures
        /\ call[c].pc = "executed"
        /\ TimedOut(call[c])
        /\ call[c].frameType = "status_change"

\* the pair the ticks t stand for: whole seconds and the nanoseconds of the
\* rest
SecondsNanos(t) == <<TickSeconds(t), TickRemainder(t) * 100>>

\* C13: in every emitted frame (receiver video, audio, metadata; frame-sync
\* video, audio) the timestamp and the timecode are the pair (T div
\* 10,000,000, (T mod 10,000,000) * 100) of the native tick value T they are
\* made from; T = 12,345,678,901 gives (1234, 567890100).
C13_TicksToSecondsNanos ==
    frame.pc = "emitted" =>
        /\ frame.out.timecode = SecondsNanos(frame.timecode)
        /\ frame.out.timestamp =
               SecondsNanos(IF frame.site = "metadataReceive"
                            THEN frame.timecode ELSE frame.timestamp)
        /\ (frame.timecode = [hi |-> 5, lo |-> 1608260661]) =>
               frame.out.timecode = <<1234, 567890100>>

\* C14: for one native audio frame, receiver.audio and receiver.data emit
\* the native channel stride unchanged for the two float formats, and half
\* of that value for the interleaved 16-bit format.
C14_Int16StrideIsHalf ==
    (frame.pc = "emitted" /\ frame.site = "audioReceive") =>
        LET floatStride ==
                TruncDiv(frame.stride, audioStrideFactor("float_32_separate"))
        IN /\ floatStride = frame.stride
           /\ TruncDiv(frame.stride, audioStrideFactor("float_32_interleaved")) = floatStride
           /\ frame.audioFormat # "int_16_interleaved" =>
                  frame.out.channelStrideInBytes = floatStride
           /\ frame.audioFormat = "int_16_interleaved" =>
                  2 * frame.out.channelStrideInBytes = floatStride

C14_Witness ==
    /\ frame.pc = "emitted" /\ frame.site = "audioReceive"
    /\ frame.audioFormat = "int_16_interleaved"
    /\ frame.samples = MaxSamples
    /\ frame.stride = BytesPerFloat * MaxSamples
    /\ 2 * frame.out.channelStrideInBytes = frame.stride

FrameSyncEnded(s) == Len(s.rets) > 0 \/ s.finalized

\* C17: framesync(receiver) takes one strong reference to the receiver
\* object; the frame-sync holds it for its whole lifetime; the reference is
\* released exactly once in every outcome: by destroy() or by the finalizer
\* of a created frame-sync, never by both, and by the failure path when the
\* creation is rejected.
C17_ReferenceReleasedOnce ==
    \A f \in FrameSyncs :
        LET s == fs[f] IN
        /\ s.refDeletes <= 1
        /\ (s.pc \in {"queued", "created", "createFailed"}) =>
               (s.ref = "live" /\ s.refDeletes = 0)
        /\ (s.pc = "open" /\ ~FrameSyncEnded(s)) =>
               (s.ref = "live" /\ s.refDeletes = 0)
        /\ (s.pc = "open" /\ FrameSyncEnded(s)) =>
               (s.ref = "deleted" /\ s.refDeletes = 1)
        /\ (s.pc = "rejected" /\ s.error = "CreateFail") =>
               (s.ref = "deleted" /\ s.refDeletes = 1)

\* C18: malformed arguments to receive(), receiver.audio, receiver.data,
\* framesync(), frameSync.video and frameSync.audio are detected at call
\* time: the promise is rejected with the invalid-arguments error, no work
\* item is queued and no native call is made for that call.
C18_MalformedArgumentsRejected ==
    /\ \A r \in Receivers :
          recv[r].malformed =>
              (recv[r].pc = "rejected" /\ recv[r].error = "InvalidArgs")
    /\ \A f \in FrameSyncs :
          fs[f].malformed =>
              (fs[f].pc = "rejected" /\ fs[f].error = "InvalidArgs"
                 /\ fs[f].ref = "none")
    /\ \A c \in Calls :
          LET s == call[c] IN
          (s.kind \in {"audio", "data", "framesyncVideo", "framesyncAudio"}
             /\ s.malformed) =>
              /\ s.pc = "settled"
              /\ s.promise = "rejected"
              /\ EntryRejected(s)
              /\ s.captures = 0

\* C19: when the native layer returns no handle for a receiver or for a
\* frame-sync, the promise of the open operation is rejected with the
\* create-failed error and no handle object (native pointer in "embedded",
\* destroy method, finalizer) ever exists for that attempt; other open
\* operations are not affected.
C19_CreateFailureRejects ==
    /\ \A r \in Receivers :
          recv[r].error = "CreateFail" =>
              /\ recv[r].pc \in {"createFailed", "rejected"}
              /\ recv[r].embedded = "undefined"
              /\ ~recv[r].held /\ ~recv[r].finalized
              /\ recv[r].destroys = 0 /\ recv[r].rets = <<>>
    /\ \A f \in FrameSyncs :
          fs[f].error = "CreateFail" =>
              /\ fs[f].pc \in {"createFailed", "rejected"}
              /\ fs[f].embedded = "undefined" /\ fs[f].wrapper = "none"
              /\ ~fs[f].held /\ ~fs[f].finalized
              /\ fs[f].fsDestroys = 0 /\ fs[f].wrapperDeletes = 0
              /\ fs[f].rets = <<>>

C19_Witness ==
    /\ recv["r1"].pc = "rejected" /\ recv["r1"].error = "CreateFail"
    /\ recv["r2"].pc = "open" /\ recv["r2"].embedded = "external"
    /\ \E f \in FrameSyncs :
          fs[f].pc = "rejected" /\ fs[f].error = "CreateFail" /\ fs[f].recv = "r2"

\* C20: a captured frame of type video whose payload pointer is null or
\* whose computed payload size is zero makes the promise of receiver.video
\* and of receiver.data reject with NotVideo; it never resolves with a
\* video frame.
C20_EmptyVideoRejects ==
    \A c \in Calls :
        LET s == call[c] IN
        (s.kind \in {"video", "data"} /\ s.captures >= 1
           /\ s.frameType = "video" /\ s.empty) =>
            /\ s.pc \in {"executed", "settled"}
            /\ s.promise # "resolved"
            /\ s.pc = "settled" =>
                   (s.promise = "rejected" /\ s.value = "NotVideo")

C20_Witness ==
    \E c \in Calls :
        /\ call[c].kind = "video" /\ call[c].frameType = "video"
        /\ call[c].empty /\ call[c].captures >= 2
        /\ call[c].promise = "rejected" /\ call[c].value = "NotVideo"

\* ------------------------------------------------------------------------
\* Order of copy, release and resolution
\* ------------------------------------------------------------------------
Positions(log, op) == {i \in 1 .. Len(log) : log[i].op = op}

ReceiverKinds == {"video", "audio", "metadata", "data"}

\* the call has resolved with a frame that carries a payload
ResolvedFrame(s) ==
    /\ s.promise = "resolved"
    /\ s.value \in {"video", "audio", "metadata"}

MainSteps == {"entry", "complete"}
WorkerSteps == {"execute"}

Settled(p) == p \in {"resolved", "rejected"}

\* the positions of a call at which the next step is the worker's
WorkerPositions == {"queued", "looping"}

\* native creates, captures, conversions and pulls were made by the worker,
\* and every settling of a promise by a step of the main thread
ThreadsKept ==
    /\ \A c \in Calls :
           /\ call[c].nativeBy \subseteq WorkerSteps
           /\ call[c].captures > 0 => call[c].nativeBy # {}
           /\ \A i \in 1 .. Len(call[c].log) :
                  call[c].log[i].op \in {"resolve", "reject"} =>
                      call[c].log[i].by \in MainSteps
           /\ Settled(call[c].promise) =>
                  \E i \in 1 .. Len(call[c].log) :
                      call[c].log[i].op \in {"resolve", "reject"}
    /\ \A r \in Receivers :
           /\ recv[r].nativeBy \subseteq WorkerSteps
           /\ recv[r].pc \in {"created", "createFailed", "open"} =>
                  recv[r].nativeBy # {}
           /\ recv[r].pc \in {"open", "rejected"} => recv[r].settledBy \in MainSteps
    /\ \A f \in FrameSyncs :
           /\ fs[f].nativeBy \subseteq WorkerSteps
           /\ fs[f].pc \in {"created", "createFailed", "open"} =>
                  fs[f].nativeBy # {}
           /\ fs[f].pc \in {"open", "rejected"} => fs[f].settledBy \in MainSteps

\* a step of the worker leaves the promise of its work item pending
WorkerNeverSettles ==
    /\ \A c \in Calls :
           call[c].pc \in WorkerPositions =>
               /\ call'[c].promise = call[c].promise
               /\ call'[c].log = call[c].log
    /\ \A r \in Receivers :
           recv[r].pc = "queued" =>
               /\ recv'[r].settledBy = recv[r].settledBy
               /\ recv'[r].pc \notin {"open", "rejected"}
    /\ \A f \in FrameSyncs :
           fs[f].pc = "queued" =>
               /\ fs'[f].settledBy = fs[f].settledBy
               /\ fs'[f].pc \notin {"open", "rejected"}

\* C22: receiver create/connect, capture, audio conversion, frame-sync
\* create and frame-sync pulls are made only by the execute step, which runs
\* on a worker; promises are resolved or rejected only by steps of the main
\* thread, the entry (argument errors) or the completion; the execute step
\* never settles a promise.
C22_BlockingOnWorkerSettlingOnMain ==
    []ThreadsKept /\ [][WorkerNeverSettles]_vars

\* a frame-sync pull has been made and its promise resolved, on a receiver
\* and a frame-sync whose creation went through the worker
C22_Witness ==
    \E c \in Calls :
        /\ call[c].kind = "framesyncVideo"
        /\ call[c].nativeBy = {"execute"}
        /\ call[c].promise = "resolved"
        /\ fs[call[c].fs].nativeBy = {"execute"}
        /\ recv[fs[call[c].fs].recv].settledBy = "complete"

\* ------------------------------------------------------------------------
\* Arguments of receiver.audio and receiver.data
\* ------------------------------------------------------------------------
\* the call went through dataAndAudioReceive and its arguments were accepted
AudioOrDataQueued(s) ==
    /\ s.kind \in {"audio", "data"}
    /\ s.promise # "none"
    /\ ~EntryRejected(s)

\* C26: in receiver.audio and receiver.data a number as first argument is
\* the timeout and leaves the audio options at their defaults; with an
\* options object as first argument the second argument is the timeout; a
\* timeout that is absent or not a number leaves the default timeout.
C26_TimeoutOrOptionsFirst ==
    \A c \in Calls :
        LET s == call[c]
            first == s.args[1]
            second == s.args[2]
        IN AudioOrDataQueued(s) =>
            /\ first.type = "number" =>
                   /\ s.wait = first.n
                   /\ s.audioFormat = "carrierDefault"
                   /\ s.referenceLevel = JsUndefined
            /\ (first.type = "object" /\ second.type = "number") =>
                   s.wait = second.n
            /\ (first.type \in {"object", "undefined"} /\ second.type # "number") =>
                   s.wait = DefaultWait

\* an audio call with an options object and a timeout has captured with
\* that timeout, and with the format of the options
C26_Witness ==
    \E c \in Calls :
        /\ AudioOrDataQueued(call[c])
        /\ call[c].args[1].type = "object"
        /\ call[c].args[1].audioFormat = JsNumber(2)
        /\ call[c].args[2] = JsNumber(MaxWait)
        /\ call[c].wait = MaxWait
        /\ call[c].audioFormat = "int_16_interleaved"
        /\ call[c].captures > 0

\* ------------------------------------------------------------------------
\* Calls in flight at the same time
\* ------------------------------------------------------------------------
\* a step of one call leaves the carrier of every other call as it was
OtherCarriersUntouched ==
    \A c, d \in ConcurrentCalls :
        (c # d /\ call'[c] # call[c]) => call'[d] = call[d]

\* what a call settled with follows from its own capture and its own timeout
SettledFromOwnCapture ==
    \A c \in ConcurrentCalls :
        LET s == call[c]
        IN /\ (s.kind = "audio" /\ s.promise = "resolved") =>
                  s.value = "audio" /\ s.frameType = "audio"
           /\ (s.kind = "data" /\ s.promise = "resolved") =>
                  <<s.promise, s.value>> = DataResultOf(s.frameType)
           /\ (s.kind = "audio" /\ s.status = "NotFound") =>
                  s.frameType # "audio" /\ s.elapsed >= s.wait
           /\ (Settled(s.promise) /\ ~EntryRejected(s)) => s.wait = WaitOf(s.arg)

\* C23: two capture calls in flight on one receiver never read or write each
\* other's frame structures, status or timeout: every step changes the
\* carrier of one call only, and each promise is settled from the capture
\* and the timeout of its own call.
C23_CallsOwnTheirData ==
    []SettledFromOwnCapture /\ [][OtherCarriersUntouched]_vars

\* two calls are in flight at once, one holding an audio frame and one
\* holding the result of a capture that returned nothing
C23_Witness ==
    /\ call["c1"].pc = "executed" /\ call["c2"].pc = "executed"
    /\ call["c1"].recv = call["c2"].recv
    /\ call["c1"].frameType = "audio" /\ call["c2"].frameType = "none"
    /\ call["c1"].status = "ok" /\ call["c2"].kind = "data"

\* the options of a call that resolved with audio, as its own arguments
\* asked for them
RequestedFormat(s) == audioFormatAfter(s.args[1])

RequestedLevel(s) ==
    IF RequestedFormat(s) = "int_16_interleaved"
    THEN referenceLevelAfter(s.args[1]) ELSE JsUndefined

\* an audio or data step leaves the receiver record as it was
ReceiverKeepsNoOptions ==
    \A r \in Receivers : recv[r].pc = "open" => recv'[r] = recv[r]

\* every audio result carries the options of its own call
OwnOptionsEmitted ==
    \A c \in ConcurrentCalls :
        LET s == call[c]
        IN (s.promise = "resolved" /\ s.value = "audio") =>
               /\ s.emitted.audioFormat = RequestedFormat(s)
               /\ s.emitted.referenceLevel = RequestedLevel(s)

\* C24: the audio format and the reference level given to a receiver.audio
\* or receiver.data call apply to that call only: each audio result carries
\* the options of its own call (the defaults when it gave none), whatever
\* earlier, later or concurrent calls on the receiver asked for, and the
\* calls leave nothing on the receiver.
C24_AudioOptionsPerCall ==
    []OwnOptionsEmitted /\ [][ReceiverKeepsNoOptions]_vars

\* a call that asked for 16-bit audio and a later call that asked for
\* nothing have both resolved with audio
C24_Witness ==
    /\ call["c1"].promise = "resolved" /\ call["c1"].value = "audio"
    /\ call["c1"].emitted.audioFormat = "int_16_interleaved"
    /\ call["c1"].emitted.referenceLevel = JsNumber(0)
    /\ call["c2"].promise = "resolved" /\ call["c2"].value = "audio"
    /\ call["c2"].emitted.audioFormat = "carrierDefault"

\* ------------------------------------------------------------------------
\* Loading the addon
\* ------------------------------------------------------------------------
\* a host other than darwin, linux, or win32 on ia32 / x64
UnsupportedHost ==
    ~(\/ addon.platform \in {"darwin", "linux"}
      \/ (addon.platform = "win32" /\ addon.arch \in {"ia32", "x64"}))

Imported == addon.pc # "unloaded"

\* C27: on an unsupported host the loader is never invoked; find, send,
\* receive, framesync and routing return a promise rejected with
\* "Unsupported platform or CPU"; version() returns the empty string;
\* isSupportedCPU(), initialize() and destroy() return false.
C27_UnsupportedHostUsesNoop ==
    (UnsupportedHost /\ Imported) =>
        /\ addon.loaderCalls = 0
        /\ addon.pc = "loaded"
        /\ addon.last.fn \in AsyncExports => addon.last.outcome = Unsupported
        /\ addon.last.fn = "version" => addon.last.outcome = "emptyString"
        /\ addon.last.fn \in SyncExports \ {"version"} => addon.last.outcome = "false"

\* routing() has been called on win32 / arm64
C27_Witness ==
    /\ addon.platform = "win32" /\ addon.arch = "arm64"
    /\ addon.last.fn = "routing"
    /\ addon.last.outcome = Unsupported
    /\ addon.loaderCalls = 0

\* C28: on a supported operating system for whose architecture the loader
\* finds no binding and throws, the import of the module succeeds and find()
\* returns a promise rejected with "Unsupported platform or CPU".
C28_ImportSurvivesLoaderFailure ==
    (~UnsupportedHost /\ ~addon.loadable /\ Imported) =>
        /\ addon.pc = "loaded"
        /\ addon.last.fn = "find" => addon.last.outcome = Unsupported

\* C29: on a supported host the loader is invoked once, at import; send,
\* receive, framesync, routing and find hand their argument to the loaded
\* addon unchanged, and find() without an argument hands it an empty options
\* object.
C29_ArgumentsForwarded ==
    (~UnsupportedHost /\ addon.loadable /\ Imported) =>
        /\ addon.loaderCalls = 1
        /\ addon.uses = "native"
        /\ addon.last.fn \in AsyncExports =>
               addon.last.received =
                   IF addon.last.fn = "find" /\ addon.last.arg = "undefined"
                   THEN "{}" ELSE addon.last.arg

\* find() has been called without an argument on linux / x64
C29_Witness ==
    /\ addon.platform = "linux" /\ addon.arch = "x64"
    /\ addon.loaderCalls = 1
    /\ addon.last.fn = "find"
    /\ addon.last.arg = "undefined"
    /\ addon.last.received = "{}"

\* ------------------------------------------------------------------------
\* Frame-sync calls and the destruction of the frame-sync
\* ------------------------------------------------------------------------
\* C30: however frameSync.video() / audio() work items interleave with
\* frameSync.destroy() and the finalizer, no pull and no release of a pulled
\* frame reads the wrapper, or uses its native handle, after the wrapper has
\* been deleted and the handle destroyed.
C30_NoPullAfterWrapperDeleted ==
    \A c \in Calls :
        call[c].kind \in {"framesyncVideo", "framesyncAudio"} =>
            ~call[c].staleWrapper

\* ------------------------------------------------------------------------
\* Tally polls
\* ------------------------------------------------------------------------
\* C25: sender.tally().changed is true on the first poll after the tally
\* state of the sender has changed (through a state the receiver set, or
\* through the destruction of the receiver) and false on every later poll
\* until the state changes again; on_program and on_preview of the result
\* are the state last set.
C25_TallyChangedIsEdgeTriggered ==
    sender.polled =>
        /\ sender.last.changed = (sender.last.edges > 0)
        /\ sender.edges = 0 =>
               /\ sender.last.on_program = sender.on_program
               /\ sender.last.on_preview = sender.on_preview
        /\ \A r \in CaptureReceivers :
               (sender.edges = 0 /\ recv[r].pc = "open"
                  /\ TallyTarget(r) = SenderTallyState) =>
                   /\ sender.last.on_program = TallyTarget(r).on_program
                   /\ sender.last.on_preview = TallyTarget(r).on_preview

\* the receiver has set on-program and has then been destroyed; the poll
\* after the destruction has returned changed with both flags off
C25_Witness ==
    /\ sender.polled
    /\ sender.last.changed
    /\ ~sender.last.on_program /\ ~sender.last.on_preview
    /\ \E r \in CaptureReceivers :
           NativeFreed(r) /\ recv[r].tally.on_program


\* ------------------------------------------------------------------------
\* C31: every promise is settled exactly once
\* ------------------------------------------------------------------------
\* the settling events of a call, in the order they happened
SettleEvents(s) == Positions(s.log, "resolve") \cup Positions(s.log, "reject")

\* the completion callback of the call's work item has run and returned
WorkItemCompleted(s) == s.pc \in {"settled", "returned"}

\* C31: every promise returned by receive, video, audio, metadata, data,
\* framesync, frameSync.video and frameSync.audio is settled exactly once:
\* never resolved or rejected twice, and never left pending once the
\* completion of its work item has run, whatever frame kind the native
\* capture returned.
C31_SettledExactlyOnce ==
    /\ \A c \in Calls :
           LET s == call[c]
           IN /\ Cardinality(SettleEvents(s)) <= 1
              /\ Settled(s.promise) <=> Cardinality(SettleEvents(s)) = 1
              /\ WorkItemCompleted(s) => Settled(s.promise)
    /\ \A r \in Receivers :
           recv[r].pc \in {"open", "rejected"} => recv[r].settledBy # "none"
    /\ \A f \in FrameSyncs :
           fs[f].pc \in {"open", "rejected"} => fs[f].settledBy # "none"


\* ------------------------------------------------------------------------
\* C32: a captured frame is released once on every completion path
\* ------------------------------------------------------------------------
\* the last native capture of the call handed a frame to the carrier
FrameCaptured(s) ==
    /\ s.kind \in ReceiverKinds
    /\ s.captures > 0
    /\ s.frameType \in Capturable

\* C32: every native frame captured for a video, audio, metadata or data
\* call is released to the native layer exactly once on every completion
\* path, the paths on which the completion rejects the promise included.
C32_CapturedFrameReleasedOnce ==
    \A c \in Calls :
        LET s == call[c]
        IN FrameCaptured(s) =>
               /\ s.frees <= 1
               /\ s.pc = "settled" => s.frees = 1


\* ------------------------------------------------------------------------
\* C33: the pulled frame is released before the carrier is disposed
\* ------------------------------------------------------------------------
FramesyncKinds == {"framesyncVideo", "framesyncAudio"}

\* the events of the completion that read the carrier: the copy of the
\* payload out of c->videoFrame / c->audioFrame and the release of the frame
\* through c->wrapper->fs
CarrierAccesses(s) == Positions(s.log, "copy") \cup Positions(s.log, "free")

\* C33: in the completion of frameSync.video and frameSync.audio the pulled
\* frame is released back to the frame synchronizer exactly once and before
\* the carrier is disposed, and the carrier is not accessed after it has
\* been disposed, on the timeout, success and rejection paths alike.
C33_FrameReleasedBeforeCarrierDisposed ==
    \A c \in Calls :
        LET s == call[c]
        IN (s.kind \in FramesyncKinds /\ s.pc = "settled" /\ s.captures > 0) =>
               /\ Cardinality(Positions(s.log, "free")) = 1
               /\ \A i \in CarrierAccesses(s), j \in Positions(s.log, "tidy") :
                      i < j


\* ------------------------------------------------------------------------
\* C34: a destroyed handle refuses every later operation
\* ------------------------------------------------------------------------
\* destroy() has returned true for the handle
Destroyed(h) == \E i \in 1 .. Len(h.rets) : h.rets[i]

\* the step is the entry of call c
EntryStep(c) == call[c].pc = "idle" /\ call'[c].pc # "idle"

\* the call was rejected in its entry function: no work item, no native call
FailedAtEntry(s) ==
    /\ s.pc = "settled"
    /\ s.promise = "rejected"
    /\ s.log = <<Ev("entry", "reject")>>
    /\ s.nativeBy = {}
    /\ s.captures = 0

\* the handles an operation can be issued on
OpenReceivers == {r \in Receivers : recv[r].pc = "open" /\ recv[r].held}
OpenFrameSyncs == {f \in FrameSyncs : fs[f].pc = "open" /\ fs[f].held}

DestroyedHandleRefuses ==
    /\ \A c \in Calls :
           EntryStep(c) =>
               /\ (/\ call'[c].kind \in ReceiverKinds
                   /\ \A r \in OpenReceivers : Destroyed(recv[r]))
                      => FailedAtEntry(call'[c])
               /\ (/\ call'[c].kind \in FramesyncKinds
                   /\ \A f \in OpenFrameSyncs : Destroyed(fs[f]))
                      => FailedAtEntry(call'[c])
               /\ (call'[c].pc = "queued" /\ call'[c].kind \in ReceiverKinds)
                      => ~Destroyed(recv[call'[c].recv])
               /\ (call'[c].pc = "queued" /\ call'[c].kind \in FramesyncKinds)
                      => ~Destroyed(fs[call'[c].fs])
    /\ \A r \in Receivers :
           (Destroyed(recv[r]) /\ setReceiveTally(r)) =>
               /\ recv'[r].tallyRet = "throws"
               /\ recv'[r].tally = recv[r].tally
    /\ \A f \in FrameSyncs :
           (Destroyed(fs[f]) /\ audioQueueDepth(f)) =>
               /\ fs'[f].depth = "throws"
               /\ fs'[f].depthStale = fs[f].depthStale
    /\ \A f \in FrameSyncs, r \in Receivers :
           (Destroyed(recv[r]) /\ framesync(f, r)) =>
               /\ fs'[f].pc = "rejected"
               /\ fs'[f].settledBy = "entry"
               /\ fs'[f].nativeBy = {}

\* C34: after destroy() has returned true for a receiver or a frame-sync,
\* every later operation issued on that handle (receiver video, audio,
\* metadata, data, tally; frameSync video, audio, audioQueueDepth;
\* framesync(receiver) on a destroyed receiver) fails with a rejected promise
\* or a thrown error, queues no work item and makes no native call with the
\* destroyed handle.
C34_DestroyedHandleRefusesOperations == [][DestroyedHandleRefuses]_vars

C34_Witness ==
    /\ Destroyed(recv["r1"])
    /\ recv["r1"].tallyRet = "throws"
    /\ \E c \in Calls :
           /\ call[c].kind \in ReceiverKinds
           /\ ~call[c].malformed
           /\ FailedAtEntry(call[c])
           /\ call[c].value = "InvalidArg"
    /\ Destroyed(fs["f1"])
    /\ fs["f1"].depth = "throws"


\* ------------------------------------------------------------------------
\* C35: notifications never end a video, audio or metadata capture
\* ------------------------------------------------------------------------
\* the results of a native capture that are neither a frame, nor the
\* no-frame result, nor an error
NotificationKinds == FrameTypes \ (Capturable \cup {"none", "error"})

\* the step is one native capture of the loop of call c
CaptureStep(c) ==
    /\ call[c].kind \in Capturable
    /\ call[c].pc \in {"queued", "looping"}
    /\ call'[c] # call[c]

\* the rule under which the loop goes on after a result it passes over: the
\* next slice is the budget left, and the call ends as timed out only when a
\* non-zero budget is used up
ContinuesOnBudget(c) ==
    LET left == remainingWaitMs(call[c].wait, call'[c].elapsed)
    IN /\ call'[c].waitMs = left
       /\ call'[c].promise = "pending"
       /\ IF call[c].wait # 0 /\ left = 0
          THEN call'[c].pc = "executed" /\ call'[c].status = "NotFound"
          ELSE call'[c].pc = "looping" /\ call'[c].status = "ok"

NotificationsSkipped ==
    \A c \in Calls :
        CaptureStep(c) =>
            /\ call'[c].frameType \in NotificationKinds =>
                   call'[c].frees = 0 /\ ContinuesOnBudget(c)
            /\ (call'[c].frameType \in Capturable \ {call[c].kind}) =>
                   call'[c].frees = 1 /\ ContinuesOnBudget(c)

\* C35: a video, audio or metadata capture never ends because of a
\* source-change or status-change notification or any other result that is
\* neither a frame, nor no frame, nor an error: the result is passed over
\* without being reported or released, and the loop goes on under the same
\* remaining-budget rule as for a frame of the wrong kind.
C35_NotificationsNeverEndCapture == [][NotificationsSkipped]_vars

C35_Witness ==
    \E c \in Calls :
        /\ call[c].kind \in Capturable
        /\ call[c].pc = "looping"
        /\ call[c].frameType \in {"status_change", "source_change"}
        /\ call[c].wait > 0 /\ call[c].waitMs > 0
        /\ call[c].frees = 0


\* ------------------------------------------------------------------------
\* C36: the copy out of a conversion buffer stays within it
\* ------------------------------------------------------------------------
InterleavedFormats == {"int_16_interleaved", "float_32_interleaved"}

\* C36: when receiver.audio or receiver.data converts a frame to an
\* interleaved format, the number of bytes copied into the emitted data
\* buffer never exceeds the size of the conversion buffer allocated for the
\* call (samples * channels * 2 bytes for 16-bit, samples * channels * 4
\* bytes for 32-bit float), for every native stride, sample count and
\* channel count.
C36_CopyWithinConversionBuffer ==
    (/\ frame.pc = "emitted"
     /\ frame.site = "audioReceive"
     /\ frame.audioFormat \in InterleavedFormats) =>
        frame.out.dataLength <= conversionBufferBytes(frame)


\* ------------------------------------------------------------------------
\* C37: fastest and best imply video fields
\* ------------------------------------------------------------------------
\* NDIlib_recv_create_v3 has been called for the receiver
NativelyCreated(s) == s.nativeFields # "none"

\* C37: a receiver created with colour format Fastest or Best reports
\* allowVideoFields = true and is created natively with video fields
\* allowed, even when the caller passed allowVideoFields: false; for every
\* other colour format the caller's allowVideoFields value is used unchanged.
C37_FastestAndBestAllowVideoFields ==
    \A r \in Receivers :
        LET s == recv[r]
        IN /\ s.colorFormat \in {Fastest, Best} =>
                  /\ NativelyCreated(s) => s.nativeFields = "true"
                  /\ s.pc = "open" => s.reportedFields = "true"
           /\ (/\ s.colorFormat \in ColorFormats \ {Fastest, Best}
               /\ s.askedFields \in {"true", "false"}) =>
                  /\ NativelyCreated(s) => s.nativeFields = s.askedFields
                  /\ s.pc = "open" => s.reportedFields = s.askedFields

C37_Witness ==
    /\ recv["r1"].pc = "open"
    /\ recv["r1"].colorFormat = Best
    /\ recv["r1"].askedFields = "false"
    /\ recv["r1"].nativeFields = "true"
    /\ recv["r1"].reportedFields = "true"
    /\ recv["r2"].pc = "open"
    /\ recv["r2"].colorFormat \in ColorFormats \ {Fastest, Best}
    /\ recv["r2"].askedFields = "false"
    /\ recv["r2"].reportedFields = "false"


\* ------------------------------------------------------------------------
\* C38: the remaining wait
\* ------------------------------------------------------------------------
\* max(0, w - e)
FlooredDifference(w, e) == IF w - e > 0 THEN w - e ELSE 0

\* the slices of the loop of a call so far: the one given to its last native
\* capture and the one computed for the next
SlicesWithinWait(s) ==
    /\ s.slice \in 0 .. s.wait
    /\ s.waitMs \in 0 .. s.wait
    /\ s.waitMs <= s.slice
    /\ (s.pc = "looping" \/ (s.status = "NotFound" /\ s.frameType # "none")) =>
           s.waitMs = IF s.wait = 0 THEN 0
                      ELSE FlooredDifference(s.wait, s.elapsed)

SlicesNeverIncrease ==
    \A c \in Calls :
        (CaptureStep(c) /\ call[c].pc = "looping") =>
            /\ call'[c].slice = call[c].waitMs
            /\ call'[c].slice <= call[c].slice
            /\ call'[c].waitMs <= call[c].waitMs

\* C38: remainingWaitMs(w, start) is 0 when w = 0 and max(0, w - elapsed)
\* otherwise, with no unsigned underflow; hence within one capture every
\* wait slice handed to the native capture lies in 0 .. w and successive
\* slices never increase.
C38_RemainingWaitWithinBudget ==
    /\ [](\A c \in Calls : LoopCall(call[c]) => SlicesWithinWait(call[c]))
    /\ [][SlicesNeverIncrease]_vars

C38_Witness ==
    \E c \in Calls :
        /\ LoopCall(call[c])
        /\ call[c].pc = "looping"
        /\ call[c].captures >= 2
        /\ call[c].wait = MaxWait
        /\ call[c].slice > 0
        /\ call[c].slice < call[c].wait
        /\ call[c].waitMs <= call[c].slice

====
